---- MODULE Spec2Model ----
(***************************************************************************)
(* Verification model of emitt: the routing engine (internal/router), the  *)
(* processor orchestrator (internal/processor) with the durable store's    *)
(* status transitions (internal/storage), and the LLM tool-use loop.       *)
(*                                                                         *)
(* The specifications of this module:                                      *)
(*   SpecRoute  RuleSet.FindMatch / Rule.Matches / Router.Route            *)
(*   SpecLLM    LLMClient.ProcessWithTools (both LLM clients)              *)
(*   Spec       Processor.Process run by concurrent SMTP handlers and      *)
(*              Processor.ProcessPending, over one Store and one EmailTool *)
(*   SpecMCP    ServerConnection.request / readResponses on one connection *)
(*   SpecDB     DatabaseTool.Execute on one query                          *)
(*   SpecClient mcp.Client: Connect / ConnectServer, RegisterTools and     *)
(*              the execution of registered MCP tools                      *)
(*   SpecSMTP   one smtpSession: Mail, Rcpt, Data, Reset and the handler   *)
(*              tasks Data starts                                          *)
(*   SpecMCPFair SpecMCP under fair scheduling of callers and reader       *)
(*   SpecReply  EmailTool.executeReply on one send_email call              *)
(*   SpecParse  Parser.parseBody on one message entity                     *)
(*   SpecRegistry tools.Registry: Register, Get, Execute                   *)
(***************************************************************************)
EXTENDS Integers, Sequences, FiniteSets, TLC

VARIABLES
    \* ---- router (SpecRoute) ----
    mailboxes,    \* the configured mailbox list NewRouter was given
    rules,        \* RuleSet.rules: the compiled rules, in configuration order
    msg,          \* the InboundEmail handed to Route
    rPc,          \* "route" before Route is called, "done" once it returned
    matched,      \* what FindMatch returned: a rule's position, or NoRule (nil)
    routeResult   \* the RouteResult returned by Route

routeVars == <<mailboxes, rules, msg, rPc, matched, routeResult>>

VARIABLES
    \* ---- LLM tool-use loop (SpecLLM) ----
    llmClient,      \* which LLMClient runs: "chat" (chat completions) or "responses"
    maxIterationsArg, \* the maxIterations argument ProcessWithTools was called with
    maxIterations,  \* the local maxIterations, after the default was applied
    iter,           \* the loop variable i
    messages,       \* the conversation: messages (chat) / input (responses)
    resp,           \* the response the current iteration received
    tcIdx,          \* position of the range loop over the response's tool calls
    llmPc,          \* "start", "loop", "tools", "done"
    llmResult,      \* what ProcessWithTools returned: [text, err]
    chatCalls,      \* history: number of Chat calls made
    received,       \* history: the responses Chat returned, in order
    toolNames,      \* the toolNames argument: the mailbox's permitted tool names
    apiTools        \* the names of the tools declared to the model

llmVars == <<llmClient, maxIterationsArg, maxIterations, iter, messages, resp, tcIdx, llmPc,
             llmResult, chatCalls, received, toolNames, apiTools>>

VARIABLES
    \* ---- processor orchestrator, store, email tool (Spec) ----
    emails,        \* the emails table: row id -> [message_id, status, processed_at, mailbox_name]
    pc,            \* per thread: where it stands in Process / ProcessPending
    inbound,       \* per thread: the InboundEmail Process was called with
    dbID,          \* per thread: dbEmail.ID (0 before SaveEmail assigned it)
    route,         \* per thread: routeResult
    processErr,    \* per thread: processErr ("" = nil)
    finalStatus,   \* per thread: finalStatus ("" before it is chosen)
    ret,           \* per thread: what Process returned (NotReturned while running)
    expired,       \* per thread: the context's deadline has passed
    sends,         \* per thread: send_email executions of the running dispatch
    trace,         \* history, per thread: the steps of the Process call, in order
    currentEmail,  \* EmailTool.currentEmail (one tool instance for all threads)
    outbox,        \* history: the OutboundEmails handed to EmailSender.Send
    posts,         \* history: the webhook POSTs made, by email row id
    draft,         \* per thread: the recipient executeReply has read so far
    pending,       \* ProcessPending: the rows GetPendingEmails still to handle
    fetched,       \* history: the row ids GetPendingEmails returned to ProcessPending
    toolCalls,     \* the tool_calls table: the ToolCallRecord rows
    ppRet,         \* what ProcessPending returned (NotReturned while running)
    nanos,         \* the clock generateMessageID reads
    logs           \* the processing_logs table, in insertion order

pipeVars == <<emails, pc, inbound, dbID, route, processErr, finalStatus, ret,
              expired, sends, draft, trace, currentEmail, outbox, posts, pending, fetched, toolCalls, ppRet,
              nanos, logs>>

VARIABLES
    \* ---- one MCP ServerConnection (SpecMCP) ----
    reqID,         \* c.reqID: the last request id handed out
    mcpPending,    \* c.pending: request id -> the buffer of its response channel
    mu,            \* c.mu: "free", or "reader" while readResponses holds it
    callPc,        \* per caller: where it stands in request
    callID,        \* per caller: the id of its request (0 = none yet)
    stdout,        \* the response lines the server wrote and the reader has not read
    emitted,       \* how many response lines the server wrote so far
    readerPc,      \* readResponses: "scan", or "blocked" in the channel send
    readerLine,    \* the response readResponses is delivering while blocked
    returned,      \* history: request id -> what request returned
    discarded      \* history: the response lines that found no pending entry

mcpVars == <<reqID, mcpPending, mu, callPc, callID, stdout, emitted, readerPc, readerLine,
             returned, discarded>>

VARIABLES
    \* ---- one database_query execution (SpecDB) ----
    dbReadOnly,    \* DatabaseTool.readOnly
    dbQuery,       \* params.Query
    dbPc,          \* "call" before Execute, "done" after
    dbResult,      \* the envelope Execute returned
    dbRan          \* what ran on the database: "", "executeSelect" or "executeModify"

dbVars == <<dbReadOnly, dbQuery, dbPc, dbResult, dbRan>>

VARIABLES
    \* ---- the MCP client and the tool registry (SpecClient) ----
    servers,       \* Client.servers: server name -> connection number, 0 if absent
    conns,         \* every ServerConnection ever made, in order of creation
    registry,      \* Registry.tools: the MCP tools registered, one per name
    connectRest,   \* the configs Connect has still to go through
    connectPc,     \* where Connect / ConnectServer stands
    connectRet,    \* what Connect returned: "none" while it runs or before
    lastConnect,   \* per server name, how its last ConnectServer returned
    registered,    \* RegisterTools has run since the last successful connect
    lastCall       \* the last execution of a registered MCP tool

clientVars == <<servers, conns, registry, connectRest, connectPc, connectRet,
                lastConnect, registered, lastCall>>

VARIABLES
    \* ---- one SMTP session and the handler tasks it starts (SpecSMTP) ----
    allowedDomains,  \* cfg.AllowedDomains
    sessFrom,        \* smtpSession.from
    sessTo,          \* smtpSession.to
    smtpReply,       \* what the last command of the session returned
    dataLog,         \* per DATA command, in order: the message and the reply
    handlerTasks     \* the tasks Data started, in order, and how far each is

smtpVars == <<allowedDomains, sessFrom, sessTo, smtpReply, dataLog, handlerTasks>>

VARIABLES
    \* ---- one send_email reply of the email tool (SpecReply) ----
    replyEmail,    \* EmailTool.currentEmail
    emailArgs,     \* params: the EmailArgs of the call
    replyPc,       \* "call" before Execute, "done" after
    replySends,    \* the OutboundEmails handed to sender.Send, in order
    replyResult    \* the envelope Execute returned

replyVars == <<replyEmail, emailArgs, replyPc, replySends, replyResult>>

VARIABLES
    \* ---- one Parser.Parse of a message body (SpecParse) ----
    entity,        \* the message entity Parse read
    parsedEmail,   \* the InboundEmail parseBody fills
    parsePc        \* "parse" before parseBody, "done" after

parseVars == <<entity, parsedEmail, parsePc>>

VARIABLES
    \* ---- one tools.Registry (SpecRegistry) ----
    regTools,      \* Registry.tools: the registered tools, one per name
    regLast,       \* the tool the last Register call was given
    regExec        \* the last Execute call: its name, the tool that ran, the error

regVars == <<regTools, regLast, regExec>>

toolVars == <<replyVars, parseVars, regVars>>

\* The components added to the first four.
extVars == <<dbVars, clientVars, smtpVars, toolVars>>

vars == <<routeVars, llmVars, pipeVars, mcpVars, extVars>>

\* What an action of one component leaves alone: the other components.
notRoute == <<llmVars, pipeVars, mcpVars, extVars>>
notLLM == <<routeVars, pipeVars, mcpVars, extVars>>
notPipe == <<routeVars, llmVars, mcpVars, extVars>>
notMCP == <<routeVars, llmVars, pipeVars, extVars>>
coreVars == <<routeVars, llmVars, pipeVars, mcpVars>>
notDB == <<coreVars, clientVars, smtpVars, toolVars>>
notClient == <<coreVars, dbVars, smtpVars, toolVars>>
notSMTP == <<coreVars, dbVars, clientVars, toolVars>>
notReply == <<coreVars, dbVars, clientVars, smtpVars, parseVars, regVars>>
notParse == <<coreVars, dbVars, clientVars, smtpVars, replyVars, regVars>>
notRegistry == <<coreVars, dbVars, clientVars, smtpVars, replyVars, parseVars>>

\* ------------------------------------------------------------------------
\* Router: config.MatchConfig.Compile, Rule.Matches, RuleSet.FindMatch,
\* Router.Route
\* ------------------------------------------------------------------------

\* Longest rule list the routing model draws.
MaxRules == 2

\* The nil *regexp.Regexp that Compile leaves for an empty pattern source.
NilRegexp == "<nil>"

ProcessorTypeLLM == "llm"
ProcessorTypeForward == "forward"
ProcessorTypeWebhook == "webhook"
ProcessorTypeNoop == "noop"

\* FindMatch's nil result.
NoRule == 0

\* Strings the model's messages are made of.
Addresses == {"support@x.com", "sales@x.com", "alice@a.org", "bob@b.org"}
Subjects == {"Urgent: help", "hello"}

\* regexp.MatchString: a pattern source is modelled by the set of strings of
\* the model's universe in which Go's unanchored search finds a match.
MatchString(re, s) ==
    CASE re = ".*"         -> TRUE
      [] re = "support@.*" -> s = "support@x.com"
      [] re = "sales@.*"   -> s = "sales@x.com"
      [] re = "alice@.*"   -> s = "alice@a.org"
      [] re = "Urgent"     -> s = "Urgent: help"
      [] OTHER             -> FALSE

\* MatchConfig.Compile: one field; an empty source compiles to nil.
CompilePattern(src) == IF src # "" THEN src ELSE NilRegexp

Compile(m) ==
    [From    |-> CompilePattern(m.from),
     To      |-> CompilePattern(m.to),
     Subject |-> CompilePattern(m.subject)]

\* The mailboxes a configuration may list (config.MailboxConfig). The first
\* two are the spec's routing-precedence scenario.
MailboxSupport ==
    [name |-> "support", match |-> [from |-> "", to |-> "support@.*", subject |-> ""],
     processor |-> [type |-> "noop", forward_to |-> "", webhook_url |-> ""]]
MailboxAll ==
    [name |-> "all", match |-> [from |-> "", to |-> ".*", subject |-> ""],
     processor |-> [type |-> "noop", forward_to |-> "", webhook_url |-> ""]]
MailboxAlice ==
    [name |-> "alice", match |-> [from |-> "alice@.*", to |-> "", subject |-> ""],
     processor |-> [type |-> "", forward_to |-> "", webhook_url |-> ""]]
MailboxUrgent ==
    [name |-> "urgent", match |-> [from |-> "alice@.*", to |-> "sales@.*", subject |-> "Urgent"],
     processor |-> [type |-> "forward", forward_to |-> "bob@b.org", webhook_url |-> ""]]
MailboxAny ==
    [name |-> "any", match |-> [from |-> "", to |-> "", subject |-> ""],
     processor |-> [type |-> "webhook", forward_to |-> "", webhook_url |-> "http://hook"]]
MailboxSubject ==
    [name |-> "subject", match |-> [from |-> "", to |-> "", subject |-> "Urgent"],
     processor |-> [type |-> "llm", forward_to |-> "", webhook_url |-> ""]]

Mailboxes ==
    {MailboxSupport, MailboxAll, MailboxAlice, MailboxUrgent, MailboxAny, MailboxSubject}

\* All mailbox lists of at most n entries.
MailboxLists(n) == UNION {[1..k -> Mailboxes] : k \in 0..n}

\* NewRuleSet: compile each mailbox, keep configuration order, Priority = index
\* (0-based in the code, the position minus one here).
NewRuleSet(mbs) ==
    [i \in 1..Len(mbs) |->
        [Name      |-> mbs[i].name,
         Match     |-> Compile(mbs[i].match),
         Processor |-> mbs[i].processor,
         Priority  |-> i - 1]]

\* The messages Route is given: From with a display name that looks like an
\* address, To with zero, one or two recipients.
Senders ==
    {[Name |-> "", Address |-> "alice@a.org"],
     [Name |-> "alice@a.org", Address |-> "bob@b.org"]}
RecipientLists ==
    {<<>>, <<"sales@x.com">>, <<"support@x.com">>, <<"sales@x.com", "support@x.com">>}
RouteMessages ==
    {[From |-> f, To |-> t, Subject |-> s] :
        f \in Senders, t \in RecipientLists, s \in Subjects}

\* Mutant of AnyRecipientMatches: only the recipient at position i is tried.
FirstRecipientMatches(re, to, i) ==
    i <= Len(to) /\ MatchString(re, to[i])

\* Rule.Matches, the To loop: the first recipient at or after position i that
\* the pattern matches sets matched and breaks.
RECURSIVE AnyRecipientMatches(_, _, _)
AnyRecipientMatches(re, to, i) ==
    IF i > Len(to) THEN FALSE
    ELSE IF MatchString(re, to[i]) THEN TRUE
    ELSE AnyRecipientMatches(re, to, i + 1)

\* Rule.Matches: each non-nil pattern is an early "return false" when it does
\* not hit; falling through returns true.
Matches(r, e) ==
    IF r.Match.From # NilRegexp /\ ~MatchString(r.Match.From, e.From.Address)
    THEN FALSE
    ELSE IF r.Match.To # NilRegexp /\ ~AnyRecipientMatches(r.Match.To, e.To, 1)
    THEN FALSE
    ELSE IF r.Match.Subject # NilRegexp /\ ~MatchString(r.Match.Subject, e.Subject)
    THEN FALSE
    ELSE TRUE

\* Mutant of FindMatchFrom: the loop does not return at the first hit, so the
\* last matching rule wins.
RECURSIVE FindMatchFromLast(_, _, _)
FindMatchFromLast(rs, e, i) ==
    IF i > Len(rs) THEN NoRule
    ELSE LET later == FindMatchFromLast(rs, e, i + 1) IN
         IF later # NoRule THEN later
         ELSE IF Matches(rs[i], e) THEN i ELSE NoRule

\* RuleSet.FindMatch: range over rs.rules from position i, return the first
\* rule that matches, nil after the last.
RECURSIVE FindMatchFrom(_, _, _)
FindMatchFrom(rs, e, i) ==
    IF i > Len(rs) THEN NoRule
    ELSE IF Matches(rs[i], e) THEN i
    ELSE FindMatchFrom(rs, e, i + 1)

FindMatch(rs, e) == FindMatchFrom(rs, e, 1)

\* Router.Route: the synthetic unmatched/noop result when FindMatch returns
\* nil, else the rule's name and processor, an empty type defaulting to llm.
NoConfig == [type |-> "", forward_to |-> "", webhook_url |-> ""]

\* Route that copies the configured type string as it is.
RouteKeepingEmptyType(rs, e) ==
    LET rule == FindMatch(rs, e) IN
    IF rule = NoRule
    THEN [MailboxName |-> "unmatched", ProcessorType |-> ProcessorTypeNoop,
          Config |-> NoConfig]
    ELSE [MailboxName   |-> rs[rule].Name,
          ProcessorType |-> rs[rule].Processor.type,
          Config        |-> rs[rule].Processor]

Route(rs, e) ==
    LET rule == FindMatch(rs, e) IN
    IF rule = NoRule
    THEN [MailboxName |-> "unmatched", ProcessorType |-> ProcessorTypeNoop,
          Config |-> NoConfig]
    ELSE [MailboxName   |-> rs[rule].Name,
          ProcessorType |-> IF rs[rule].Processor.type = ""
                            THEN ProcessorTypeLLM
                            ELSE rs[rule].Processor.type,
          Config        |-> rs[rule].Processor]

NoResult == [MailboxName |-> "", ProcessorType |-> "", Config |-> NoConfig]

\* ---- SpecRoute: one Route call on a drawn rule list and message ----------
RouteInit ==
    /\ mailboxes \in MailboxLists(MaxRules)
    /\ rules = NewRuleSet(mailboxes)
    /\ msg \in RouteMessages
    /\ rPc = "route"
    /\ matched = NoRule
    /\ routeResult = NoResult

RouteCall ==
    /\ rPc = "route"
    /\ matched' = FindMatch(rules, msg)
    /\ routeResult' = Route(rules, msg)
    /\ rPc' = "done"
    /\ UNCHANGED <<mailboxes, rules, msg>>
    /\ UNCHANGED notRoute

\* The router before any Route call of the model (the other specifications).
RouteCallIdle ==
    /\ msg = [From |-> [Name |-> "", Address |-> ""], To |-> <<>>, Subject |-> ""]
    /\ rPc = "idle"
    /\ matched = NoRule
    /\ routeResult = NoResult

RouteIdle ==
    /\ mailboxes = <<>>
    /\ rules = <<>>
    /\ RouteCallIdle

\* ------------------------------------------------------------------------
\* LLM tool-use loop: LLMClient.ProcessWithTools of the chat-completions
\* client and of the Responses-API client, tools.Registry.Execute
\* ------------------------------------------------------------------------

\* Number of leading model calls whose response is drawn freely; from then on
\* the model repeats the shape of its last response.
MaxVaried == 2

\* "if maxIterations <= 0 { maxIterations = 10 }"
DefaultMaxIterations == 10

\* The maxIterations arguments the model draws.
MaxIterationsArgs == {-1, 0, 1, 2, 3}

ErrMaxIterations == "max iterations reached without completion"
ErrChat == "chat completion failed"

\* Tools in the registry: a built-in and an MCP tool whose server fails.
RegisteredTools == {"send_email", "srv:echo", "srv:text", "srv:image", "srv:array"}

\* The toolNames arguments: no list, and a list with a registered and an
\* unregistered name.
ToolNameLists == {<<>>, <<"srv:text", "nosuch">>}

\* Registry.GetByNames / Registry.GetAll behind convertTools and
\* ToOpenAITools: all registered tools for an empty list, else the listed
\* names that are registered.
convertTools(reg, names) ==
    IF Len(names) = 0 THEN reg
    ELSE {names[k] : k \in 1..Len(names)} \cap reg

\* The tool-call name lists a response may carry.
CallNameLists ==
    {<<>>, <<"send_email">>, <<"nosuch", "send_email">>, <<"srv:echo">>,
     <<"srv:text", "srv:image">>, <<"srv:array">>}

Texts == {"", "done"}

\* What the model may answer, per client. FinishReason is the chat client's
\* choice.FinishReason, Status the Responses client's resp.Status; Text is the
\* assistant content (chat) or the assistant output_text ("" = none).
ResponseShapes(client) ==
    IF client = "chat"
    THEN [FinishReason : {"stop", "tool_calls"}, Status : {""},
          Text : Texts, Names : CallNameLists]
    ELSE [FinishReason : {""}, Status : {"completed", "incomplete"},
          Text : Texts, Names : CallNameLists]

\* The k-th response of the model: the shape's tool calls get the ids <<k, j>>.
Response(shape, k) ==
    [FinishReason |-> shape.FinishReason,
     Status       |-> shape.Status,
     Text         |-> shape.Text,
     ToolCalls    |-> [j \in 1..Len(shape.Names) |->
                          [ID |-> <<k, j>>, Name |-> shape.Names[j]]]]

ShapeOf(r) ==
    [FinishReason |-> r.FinishReason, Status |-> r.Status, Text |-> r.Text,
     Names |-> [j \in 1..Len(r.ToolCalls) |-> r.ToolCalls[j].Name]]

NoID == <<>>
NoResponse == [FinishReason |-> "", Status |-> "", Text |-> "", ToolCalls |-> <<>>]

\* Mutant of LoopContinues: an off-by-one loop bound.
LoopContinuesInclusive(i, max) == i <= max

\* "for i := 0; i < maxIterations; i++"
LoopContinues(i, max) == i < max

\* ProcessWithTools, entry: the default for a non-positive maxIterations.
EffectiveMaxIterations(n) == IF n <= 0 THEN DefaultMaxIterations ELSE n

\* Chat client: "messages = append(messages, resp.Message)". The Responses
\* client appends nothing for a received response.
AppendAssistant(client, msgs, r) ==
    IF client = "chat"
    THEN Append(msgs, [Role |-> "assistant", Content |-> r.Text,
                       ToolCallID |-> NoID, ToolCalls |-> r.ToolCalls])
    ELSE msgs

\* The test that ends the loop with a successful return.
\*   chat:      resp.FinishReason == "stop" || len(resp.ToolCalls) == 0
\*   responses: Status == "completed" with an assistant output_text, or no
\*              function_call item in the output
Terminates(client, r) ==
    IF client = "chat"
    THEN r.FinishReason = "stop" \/ Len(r.ToolCalls) = 0
    ELSE (r.Status = "completed" /\ r.Text # "") \/ Len(r.ToolCalls) = 0

\* The result member of the server's answer to tools/call, per MCP tool:
\* the JSON text, whether it unmarshals into the content/isError struct,
\* and the struct's fields if so.
MCPReply(name) ==
    CASE name = "srv:echo" ->
            [Result  |-> "{\"content\":[{\"type\":\"text\",\"text\":\"boom\"}],\"isError\":true}",
             parses  |-> TRUE, IsError |-> TRUE,
             Content |-> <<[Type |-> "text", Text |-> "boom"]>>]
      [] name = "srv:text" ->
            [Result  |-> "{\"content\":[{\"type\":\"text\",\"text\":\"hi\"}]}",
             parses  |-> TRUE, IsError |-> FALSE,
             Content |-> <<[Type |-> "text", Text |-> "hi"]>>]
      [] name = "srv:image" ->
            [Result  |-> "{\"content\":[{\"type\":\"image\",\"data\":\"aGk=\"}]}",
             parses  |-> TRUE, IsError |-> FALSE,
             Content |-> <<[Type |-> "image", Text |-> ""]>>]
      [] OTHER ->
            [Result  |-> "[\"hi\"]",
             parses  |-> FALSE, IsError |-> FALSE, Content |-> <<>>]

\* Mutant of CallToolResult: isError is not looked at.
CallToolResultIgnoringIsError(reply) ==
    IF ~reply.parses
    THEN [result |-> reply.Result, err |-> ""]
    ELSE IF Len(reply.Content) > 0 /\ reply.Content[1].Type = "text"
    THEN [result |-> "{\"data\":\"" \o reply.Content[1].Text \o "\",\"success\":true}",
          err |-> ""]
    ELSE [result |-> reply.Result, err |-> ""]

\* ServerConnection.CallTool once request has returned the response: the
\* raw result when it does not unmarshal; an error when isError is set; the
\* {success, data} object (json.Marshal of a map, keys in sorted order) when
\* the first content item is text; else the raw result.
CallToolResult(reply) ==
    IF ~reply.parses
    THEN [result |-> reply.Result, err |-> ""]
    ELSE IF reply.IsError
    THEN [result |-> "",
          err |-> IF Len(reply.Content) > 0
                  THEN "tool error: " \o reply.Content[1].Text
                  ELSE "tool returned error"]
    ELSE IF Len(reply.Content) > 0 /\ reply.Content[1].Type = "text"
    THEN [result |-> "{\"data\":\"" \o reply.Content[1].Text \o "\",\"success\":true}",
          err |-> ""]
    ELSE [result |-> reply.Result, err |-> ""]

\* ServerConnection.CallTool on the answer the server gives for the tool.
CallTool(name) == CallToolResult(MCPReply(name))

\* Registry.Execute: an unknown name is an error; else the tool's Execute
\* (EmailTool returns NewSuccessResult; an MCPTool calls CallTool).
RegistryExecute(name) ==
    IF name \notin RegisteredTools
    THEN [result |-> "", err |-> "unknown tool: nosuch"]
    ELSE IF name = "send_email"
    THEN [result |-> "{\"success\":true,\"data\":{\"sent\":true}}", err |-> ""]
    ELSE CallTool(name)

\* tools.NewErrorResult: the JSON envelope of an error.
NewErrorResult(err) ==
    CASE err = "unknown tool: nosuch" ->
            "{\"success\":false,\"error\":\"unknown tool: nosuch\"}"
      [] err = "tool error: boom" ->
            "{\"success\":false,\"error\":\"tool error: boom\"}"
      [] OTHER -> "{\"success\":false}"

\* Mutant of ToolResultMessages: a failed execution is skipped instead of
\* being reported to the model.
ToolResultMessagesSkippingErrors(call) ==
    LET out == RegistryExecute(call.Name) IN
    IF out.err # "" THEN <<>>
    ELSE <<[Role |-> "tool", Content |-> out.result,
            ToolCallID |-> call.ID, ToolCalls |-> <<>>]>>

\* The messages one executed tool call adds to the conversation: the result,
\* or the error envelope when Execute returned an error, keyed to the call id.
ToolResultMessages(call) ==
    LET out == RegistryExecute(call.Name) IN
    <<[Role       |-> "tool",
       Content    |-> IF out.err # "" THEN NewErrorResult(out.err) ELSE out.result,
       ToolCallID |-> call.ID,
       ToolCalls  |-> <<>>]>>

UserMessage ==
    [Role |-> "user", Content |-> "Process the following email",
     ToolCallID |-> NoID, ToolCalls |-> <<>>]

NoLLMResult == [text |-> "", err |-> ""]

LLMInit ==
    /\ llmClient \in {"chat", "responses"}
    /\ maxIterationsArg \in MaxIterationsArgs
    /\ maxIterations = maxIterationsArg
    /\ iter = 0
    /\ messages = <<>>
    /\ resp = NoResponse
    /\ tcIdx = 0
    /\ llmPc = "start"
    /\ llmResult = NoLLMResult
    /\ chatCalls = 0
    /\ received = <<>>
    /\ toolNames \in ToolNameLists
    /\ apiTools = {}

LLMIdle ==
    /\ llmClient = "chat"
    /\ maxIterationsArg = 0
    /\ maxIterations = 0
    /\ iter = 0
    /\ messages = <<>>
    /\ resp = NoResponse
    /\ tcIdx = 0
    /\ llmPc = "idle"
    /\ llmResult = NoLLMResult
    /\ chatCalls = 0
    /\ received = <<>>
    /\ toolNames = <<>>
    /\ apiTools = {}

\* ProcessWithTools up to the loop: default maxIterations, the tools to
\* declare, first user message.
LLMStart ==
    /\ llmPc = "start"
    /\ maxIterations' = EffectiveMaxIterations(maxIterations)
    /\ apiTools' = convertTools(RegisteredTools, toolNames)
    /\ messages' = <<UserMessage>>
    /\ iter' = 0
    /\ llmPc' = "loop"
    /\ UNCHANGED <<llmClient, maxIterationsArg, resp, tcIdx, llmResult, chatCalls, received,
                   toolNames>>
    /\ UNCHANGED notLLM

\* The shapes the model may answer its next call with.
NextShapes ==
    IF chatCalls < MaxVaried THEN ResponseShapes(llmClient) ELSE {ShapeOf(resp)}

\* c.Chat returns an error: ProcessWithTools returns it.
ChatFails ==
    /\ llmPc = "loop"
    /\ LoopContinues(iter, maxIterations)
    /\ chatCalls' = chatCalls + 1
    /\ llmResult' = [text |-> "", err |-> ErrChat]
    /\ llmPc' = "done"
    /\ UNCHANGED <<llmClient, maxIterationsArg, maxIterations, iter, messages, resp, tcIdx, received>>
    /\ UNCHANGED <<toolNames, apiTools>>
    /\ UNCHANGED notLLM

\* c.Chat returns a response that ends the loop: return its text.
ChatCompletes ==
    /\ llmPc = "loop"
    /\ LoopContinues(iter, maxIterations)
    /\ \E shape \in NextShapes :
        LET r == Response(shape, chatCalls + 1) IN
        /\ Terminates(llmClient, r)
        /\ chatCalls' = chatCalls + 1
        /\ received' = Append(received, r)
        /\ resp' = r
        /\ messages' = AppendAssistant(llmClient, messages, r)
        /\ llmResult' = [text |-> r.Text, err |-> ""]
        /\ llmPc' = "done"
    /\ UNCHANGED <<llmClient, maxIterationsArg, maxIterations, iter, tcIdx>>
    /\ UNCHANGED <<toolNames, apiTools>>
    /\ UNCHANGED notLLM

\* c.Chat returns a response with tool calls to execute.
ChatCallsTools ==
    /\ llmPc = "loop"
    /\ LoopContinues(iter, maxIterations)
    /\ \E shape \in NextShapes :
        LET r == Response(shape, chatCalls + 1) IN
        /\ ~Terminates(llmClient, r)
        /\ chatCalls' = chatCalls + 1
        /\ received' = Append(received, r)
        /\ resp' = r
        /\ messages' = AppendAssistant(llmClient, messages, r)
        /\ tcIdx' = 1
        /\ llmPc' = "tools"
    /\ UNCHANGED <<llmClient, maxIterationsArg, maxIterations, iter, llmResult>>
    /\ UNCHANGED <<toolNames, apiTools>>
    /\ UNCHANGED notLLM

\* Mutant of ExecuteToolCall: the range loop walks the tool calls from the
\* last to the first.
ExecuteToolCallReversed ==
    /\ llmPc = "tools"
    /\ tcIdx <= Len(resp.ToolCalls)
    /\ messages' = messages \o
           ToolResultMessages(resp.ToolCalls[Len(resp.ToolCalls) - tcIdx + 1])
    /\ IF tcIdx = Len(resp.ToolCalls)
       THEN /\ iter' = iter + 1
            /\ llmPc' = "loop"
            /\ tcIdx' = 0
       ELSE /\ tcIdx' = tcIdx + 1
            /\ UNCHANGED <<iter, llmPc>>
    /\ UNCHANGED <<llmClient, maxIterationsArg, maxIterations, resp, llmResult, chatCalls, received>>
    /\ UNCHANGED <<toolNames, apiTools>>
    /\ UNCHANGED notLLM

\* Mutant of ExecuteToolCall: an error of registry.Execute is returned to the
\* caller of ProcessWithTools instead of being reported to the model.
ExecuteToolCallAbortingOnError ==
    /\ llmPc = "tools"
    /\ tcIdx <= Len(resp.ToolCalls)
    /\ IF RegistryExecute(resp.ToolCalls[tcIdx].Name).err # ""
       THEN /\ llmResult' = [text |-> "",
                             err  |-> RegistryExecute(resp.ToolCalls[tcIdx].Name).err]
            /\ llmPc' = "done"
            /\ UNCHANGED <<messages, iter, tcIdx>>
       ELSE /\ messages' = messages \o ToolResultMessages(resp.ToolCalls[tcIdx])
            /\ UNCHANGED llmResult
            /\ IF tcIdx = Len(resp.ToolCalls)
               THEN /\ iter' = iter + 1
                    /\ llmPc' = "loop"
                    /\ tcIdx' = 0
               ELSE /\ tcIdx' = tcIdx + 1
                    /\ UNCHANGED <<iter, llmPc>>
    /\ UNCHANGED <<llmClient, maxIterationsArg, maxIterations, resp, chatCalls, received>>
    /\ UNCHANGED <<toolNames, apiTools>>
    /\ UNCHANGED notLLM

\* One pass of the range loop over the tool calls; after the last call the
\* outer loop's i++.
ExecuteToolCall ==
    /\ llmPc = "tools"
    /\ tcIdx <= Len(resp.ToolCalls)
    /\ messages' = messages \o ToolResultMessages(resp.ToolCalls[tcIdx])
    /\ IF tcIdx = Len(resp.ToolCalls)
       THEN /\ iter' = iter + 1
            /\ llmPc' = "loop"
            /\ tcIdx' = 0
       ELSE /\ tcIdx' = tcIdx + 1
            /\ UNCHANGED <<iter, llmPc>>
    /\ UNCHANGED <<llmClient, maxIterationsArg, maxIterations, resp, llmResult, chatCalls, received>>
    /\ UNCHANGED <<toolNames, apiTools>>
    /\ UNCHANGED notLLM

\* The loop ran out: "max iterations reached without completion".
MaxIterationsReached ==
    /\ llmPc = "loop"
    /\ ~LoopContinues(iter, maxIterations)
    /\ llmResult' = [text |-> "", err |-> ErrMaxIterations]
    /\ llmPc' = "done"
    /\ UNCHANGED <<llmClient, maxIterationsArg, maxIterations, iter, messages, resp, tcIdx,
                   chatCalls, received>>
    /\ UNCHANGED <<toolNames, apiTools>>
    /\ UNCHANGED notLLM

\* ------------------------------------------------------------------------
\* Processor orchestrator: Processor.Process, processWithLLM, processForward,
\* processWebhook, ProcessPending; storage.Store; tools.EmailTool
\* ------------------------------------------------------------------------

\* send_email executions one LLM dispatch may make.
MaxSends == 1

\* The goroutines smtpSession.Data starts, one Process call each, and the
\* caller of ProcessPending.
Handlers == {"h1", "h2"}
Replayer == "replay"
Threads == Handlers \cup {Replayer}

EmailStatusPending == "pending"
EmailStatusProcessing == "processing"
EmailStatusCompleted == "completed"
EmailStatusFailed == "failed"

\* A Message-ID: the header's value, or the clock reading generateMessageID
\* formats when the header is missing.
NoMessageID == [hdr |-> "", nanos |-> 0]
generateMessageID(now) == [hdr |-> "", nanos |-> now]

\* The nil *InboundEmail.
NilEmail ==
    [MessageID |-> NoMessageID, From |-> [Name |-> "", Address |-> "<nil>"],
     To |-> <<>>, Subject |-> "", ReplyTo |-> ""]

\* The messages the SMTP sessions deliver: one without and one with Reply-To.
EmailA ==
    [MessageID |-> [hdr |-> "<a@a.org>", nanos |-> 0],
     From |-> [Name |-> "", Address |-> "alice@a.org"],
     To |-> <<"support@x.com">>, Subject |-> "hello", ReplyTo |-> ""]
EmailB ==
    [MessageID |-> [hdr |-> "<b@b.org>", nanos |-> 0],
     From |-> [Name |-> "Bob", Address |-> "bob@b.org"],
     To |-> <<"sales@x.com">>, Subject |-> "Urgent: help", ReplyTo |-> "carol@c.org"]

\* Parser.Parse of the bytes ProcessPending hands it: ListEmails does not
\* select raw_message, so the message has no headers and gets a generated id.
ParseStored(now) ==
    [MessageID |-> generateMessageID(now), From |-> [Name |-> "", Address |-> ""],
     To |-> <<>>, Subject |-> "", ReplyTo |-> ""]

\* Mailboxes of the orchestrator's configurations.
MailboxAgent ==
    [name |-> "agent", match |-> [from |-> "", to |-> "", subject |-> ""],
     processor |-> [type |-> "llm", forward_to |-> "", webhook_url |-> ""]]
MailboxRelay ==
    [name |-> "relay", match |-> [from |-> "", to |-> "", subject |-> ""],
     processor |-> [type |-> "forward", forward_to |-> "ops@x.com", webhook_url |-> ""]]
MailboxBadForward ==
    [name |-> "badforward", match |-> [from |-> "alice@.*", to |-> "", subject |-> ""],
     processor |-> [type |-> "forward", forward_to |-> "", webhook_url |-> ""]]
MailboxBadHook ==
    [name |-> "badhook", match |-> [from |-> "alice@.*", to |-> "", subject |-> ""],
     processor |-> [type |-> "webhook", forward_to |-> "", webhook_url |-> ""]]
MailboxArchive ==
    [name |-> "archive", match |-> [from |-> "", to |-> "", subject |-> ""],
     processor |-> [type |-> "archive", forward_to |-> "", webhook_url |-> ""]]

ProcessorConfigs ==
    {<<MailboxAgent>>,
     <<MailboxAlice, MailboxRelay>>,
     <<MailboxRelay>>,
     <<MailboxBadForward, MailboxAny>>,
     <<MailboxBadHook, MailboxArchive>>,
     <<MailboxSupport>>}

ErrSaveEmail == "failed to save email"
ErrUpdateStatus == "failed to update email status"
ErrForwardTo == "forward_to address not configured"
ErrWebhookURL == "webhook_url not configured"
ErrGetPending == "failed to get pending emails"
NotReturned == "<running>"

\* limit arguments of ProcessPending: no limit, one row.
Limits == {0, 1}

\* Mutant of HasMessageID: a message_id column without UNIQUE.
HasMessageIDNoConstraint(tbl, mid) == FALSE

\* Store.SaveEmail: INSERT; message_id is UNIQUE; the new row's id is the
\* next AUTOINCREMENT value.
HasMessageID(tbl, mid) == \E i \in 1..Len(tbl) : tbl[i].message_id = mid

SaveEmail(tbl, e) ==
    Append(tbl, [message_id |-> e.MessageID, status |-> EmailStatusPending,
                 processed_at |-> FALSE, mailbox_name |-> ""])

\* Mutant of UpdateEmailStatus: processed_at is stamped on every update.
UpdateEmailStatusAlwaysStamping(tbl, id, status) ==
    [tbl EXCEPT ![id].status = status, ![id].processed_at = TRUE]

\* Store.UpdateEmailStatus: UPDATE ... WHERE id = ?, whatever the row's
\* status; processed_at is non-NULL exactly for completed and failed.
UpdateEmailStatus(tbl, id, status) ==
    [tbl EXCEPT ![id].status = status,
                ![id].processed_at =
                    status \in {EmailStatusCompleted, EmailStatusFailed}]

\* Store.GetPendingEmails: the pending rows, newest first, at most limit of
\* them when limit > 0.
RECURSIVE PendingFrom(_, _)
PendingFrom(tbl, i) ==
    IF i = 0 THEN <<>>
    ELSE IF tbl[i].status = EmailStatusPending
         THEN <<i>> \o PendingFrom(tbl, i - 1)
         ELSE PendingFrom(tbl, i - 1)

GetPendingEmails(tbl, limit) ==
    LET all == PendingFrom(tbl, Len(tbl)) IN
    IF limit > 0 /\ Len(all) > limit THEN SubSeq(all, 1, limit) ELSE all

\* A call made under thread t's context (a statement of the store, the
\* webhook's HTTP request): it fails once the deadline has passed, and may
\* fail for reasons of its own.
ContextOutcomes(t) == IF expired[t] THEN {FALSE} ELSE BOOLEAN

\* Mutant of StepAfter: the dispatch is run before the row is marked.
StepAfterDispatchFirst(step) ==
    CASE step = "save"       -> "route"
      [] step = "route"      -> "dispatch"
      [] step = "dispatch"   -> "processing"
      [] step = "processing" -> "final"

\* Process: the statement that follows each step when the step does not
\* return.
StepAfter(step) ==
    CASE step = "save"       -> "route"
      [] step = "route"      -> "processing"
      [] step = "processing" -> "dispatch"
      [] step = "dispatch"   -> "final"

\* Mutant of FinalStatus: the dispatch error is ignored.
FinalStatusAlwaysCompleted(err) == EmailStatusCompleted

\* Process: finalStatus is completed unless processErr != nil.
FinalStatus(err) ==
    IF err # "" THEN EmailStatusFailed ELSE EmailStatusCompleted

\* executeReply: the reply goes to Reply-To when present, else to From.
ReplyRecipient(e) == IF e.ReplyTo # "" THEN e.ReplyTo ELSE e.From.Address

\* What runs side by side: two deliveries, of the same message or of two
\* messages, or one delivery and a ProcessPending call.
Runs ==
    {[t \in Threads |->
        CASE t = "h1" -> [pc |-> "save", inbound |-> EmailA]
          [] t = "h2" -> [pc |-> "save", inbound |-> e]
          [] OTHER    -> [pc |-> "idle", inbound |-> NilEmail]] : e \in {EmailA, EmailB}}
    \cup
    {[t \in Threads |->
        CASE t = "h1" -> [pc |-> "save", inbound |-> EmailA]
          [] t = Replayer -> [pc |-> "pp_fetch", inbound |-> NilEmail]
          [] OTHER    -> [pc |-> "idle", inbound |-> NilEmail]]}

PipeInit ==
    /\ mailboxes \in ProcessorConfigs
    /\ rules = NewRuleSet(mailboxes)
    /\ emails = <<>>
    /\ \E run \in Runs :
        /\ pc = [t \in Threads |-> run[t].pc]
        /\ inbound = [t \in Threads |-> run[t].inbound]
    /\ dbID = [t \in Threads |-> 0]
    /\ route = [t \in Threads |-> NoResult]
    /\ processErr = [t \in Threads |-> ""]
    /\ finalStatus = [t \in Threads |-> ""]
    /\ ret = [t \in Threads |-> NotReturned]
    /\ expired = [t \in Threads |-> FALSE]
    /\ sends = [t \in Threads |-> 0]
    /\ draft = [t \in Threads |-> ""]
    /\ trace = [t \in Threads |-> <<>>]
    /\ currentEmail = NilEmail
    /\ outbox = {}
    /\ posts = {}
    /\ pending = <<>>
    /\ fetched = {}
    /\ toolCalls = <<>>
    /\ ppRet = NotReturned
    /\ nanos = 0
    /\ logs = <<>>

\* The orchestrator before any delivery (the other specifications).
PipeIdle ==
    /\ emails = <<>>
    /\ pc = [t \in Threads |-> "idle"]
    /\ inbound = [t \in Threads |-> NilEmail]
    /\ dbID = [t \in Threads |-> 0]
    /\ route = [t \in Threads |-> NoResult]
    /\ processErr = [t \in Threads |-> ""]
    /\ finalStatus = [t \in Threads |-> ""]
    /\ ret = [t \in Threads |-> NotReturned]
    /\ expired = [t \in Threads |-> FALSE]
    /\ sends = [t \in Threads |-> 0]
    /\ draft = [t \in Threads |-> ""]
    /\ trace = [t \in Threads |-> <<>>]
    /\ currentEmail = NilEmail
    /\ outbox = {}
    /\ posts = {}
    /\ pending = <<>>
    /\ fetched = {}
    /\ toolCalls = <<>>
    /\ ppRet = NotReturned
    /\ nanos = 0
    /\ logs = <<>>

\* Process returns err to its caller: the handler goroutine ends, and
\* ProcessPending goes on with the next row.
Return(t, err) ==
    /\ ret' = [ret EXCEPT ![t] = err]
    /\ pc' = [pc EXCEPT ![t] = IF t = Replayer THEN "pp_loop" ELSE "done"]
    /\ pending' = IF t = Replayer THEN Tail(pending) ELSE pending
    /\ UNCHANGED <<fetched, toolCalls>>

\* Process, step 1: build dbEmail with status pending and SaveEmail it; an
\* error returns "failed to save email".
ProcessSave(t) ==
    /\ pc[t] = "save"
    /\ \E ok \in ContextOutcomes(t) :
        IF ok /\ ~HasMessageID(emails, inbound[t].MessageID)
        THEN /\ emails' = SaveEmail(emails, inbound[t])
             /\ dbID' = [dbID EXCEPT ![t] = Len(emails) + 1]
             /\ trace' = [trace EXCEPT ![t] = Append(@, "store_pending")]
             /\ pc' = [pc EXCEPT ![t] = StepAfter("save")]
             /\ UNCHANGED <<ret, pending, fetched, toolCalls>>
        ELSE /\ Return(t, ErrSaveEmail)
             /\ UNCHANGED <<emails, dbID, trace>>
    /\ UNCHANGED <<inbound, route, processErr, finalStatus, expired, sends, draft,
                   currentEmail, outbox, posts, ppRet, nanos, logs>>
    /\ UNCHANGED notPipe

\* Process, step 2: router.Route; the mailbox name is set on the in-memory
\* dbEmail only.
ProcessRoute(t) ==
    /\ pc[t] = "route"
    /\ route' = [route EXCEPT ![t] = Route(rules, inbound[t])]
    /\ trace' = [trace EXCEPT ![t] = Append(@, "route")]
    /\ pc' = [pc EXCEPT ![t] = StepAfter("route")]
    /\ UNCHANGED <<emails, inbound, dbID, processErr, finalStatus, ret, expired, sends,
                   draft, currentEmail, outbox, posts, pending, fetched, toolCalls, ppRet, nanos, logs>>
    /\ UNCHANGED notPipe

\* Process, step 3: UpdateEmailStatus(processing); an error returns "failed
\* to update email status" and leaves the row as it is.
ProcessMarkProcessing(t) ==
    /\ pc[t] = "processing"
    /\ \E ok \in ContextOutcomes(t) :
        IF ok
        THEN /\ emails' = UpdateEmailStatus(emails, dbID[t], EmailStatusProcessing)
             /\ trace' = [trace EXCEPT ![t] = Append(@, "store_processing")]
             /\ pc' = [pc EXCEPT ![t] = StepAfter("processing")]
             /\ UNCHANGED <<ret, pending, fetched, toolCalls>>
        ELSE /\ Return(t, ErrUpdateStatus)
             /\ UNCHANGED <<emails, trace>>
    /\ UNCHANGED <<inbound, dbID, route, processErr, finalStatus, expired, sends, draft,
                   currentEmail, outbox, posts, ppRet, nanos, logs>>
    /\ UNCHANGED notPipe

\* InboundEmail.ToContext and the rendering of the user message: the view of
\* the email the model is shown (sender, recipients, subject).
RenderUserMessage(e) == [from |-> e.From.Address, to |-> e.To, subject |-> e.Subject]

\* Store.SaveProcessingLog: one INSERT into processing_logs.
SaveProcessingLog(tbl, log) == Append(tbl, log)

\* The INSERT runs under thread t's context and fails once the deadline has
\* passed; failures of the database itself are left out for this table.
LogOutcomes(t) == {~expired[t]}

\* Process, step 4, case llm: processWithLLM binds the email tool to the
\* inbound email, saves the llm_start log (the result of the save is
\* dropped) and enters the tool-use loop.
DispatchLLM(t) ==
    /\ pc[t] = "dispatch"
    /\ route[t].ProcessorType = ProcessorTypeLLM
    /\ currentEmail' = inbound[t]
    /\ \E ok \in LogOutcomes(t) :
        logs' = IF ok
                THEN SaveProcessingLog(logs, [email_id |-> dbID[t], step |-> "llm_start",
                                              input |-> RenderUserMessage(inbound[t]),
                                              error |-> ""])
                ELSE logs
    /\ sends' = [sends EXCEPT ![t] = 0]
    /\ trace' = [trace EXCEPT ![t] = Append(@, "dispatch_start")]
    /\ pc' = [pc EXCEPT ![t] = "llm"]
    /\ UNCHANGED <<emails, inbound, dbID, route, processErr, finalStatus, ret, expired,
                   draft, outbox, posts, pending, fetched, toolCalls, ppRet, nanos>>
    /\ UNCHANGED notPipe

\* The loop executes a send_email reply, first half of executeReply: the
\* recipient is read from the tool's current email.
ReplyAddress(t) ==
    /\ pc[t] = "llm"
    /\ sends[t] < MaxSends
    /\ IF currentEmail = NilEmail
       THEN /\ sends' = [sends EXCEPT ![t] = @ + 1]
            /\ UNCHANGED <<draft, pc>>
       ELSE /\ draft' = [draft EXCEPT ![t] = ReplyRecipient(currentEmail)]
            /\ pc' = [pc EXCEPT ![t] = "reply"]
            /\ UNCHANGED sends
    /\ UNCHANGED <<emails, inbound, dbID, route, processErr, finalStatus, ret, expired,
                   trace, currentEmail, outbox, posts, pending, fetched, toolCalls, ppRet, nanos, logs>>
    /\ UNCHANGED notPipe

\* Second half of executeReply: In-Reply-To is read from the tool's current
\* email and the message handed to the sender, which delivers it or fails
\* (the senders do not look at the context).
ReplySend(t) ==
    /\ pc[t] = "reply"
    /\ \E sent \in BOOLEAN :
        outbox' = IF ~sent THEN outbox
                  ELSE outbox \cup {[during    |-> inbound[t],
                                     action    |-> "reply",
                                     To        |-> draft[t],
                                     InReplyTo |-> currentEmail.MessageID,
                                     Quoted    |-> NoMessageID]}
    /\ sends' = [sends EXCEPT ![t] = @ + 1]
    /\ draft' = [draft EXCEPT ![t] = ""]
    /\ pc' = [pc EXCEPT ![t] = "llm"]
    /\ UNCHANGED <<emails, inbound, dbID, route, processErr, finalStatus, ret, expired,
                   trace, currentEmail, posts, pending, fetched, toolCalls, ppRet, nanos, logs>>
    /\ UNCHANGED notPipe

\* ProcessWithTools returns, with or without an error, and processWithLLM
\* saves the llm_complete log under the same context (the result of the save
\* is dropped).
LLMReturns(t) ==
    /\ pc[t] = "llm"
    /\ \E err \in {"", ErrChat}, ok \in LogOutcomes(t) :
        /\ processErr' = [processErr EXCEPT ![t] = err]
        /\ logs' = IF ok
                   THEN SaveProcessingLog(logs, [email_id |-> dbID[t],
                                                 step |-> "llm_complete",
                                                 input |-> "",
                                                 error |-> err])
                   ELSE logs
    /\ trace' = [trace EXCEPT ![t] = Append(@, "dispatch_end")]
    /\ pc' = [pc EXCEPT ![t] = StepAfter("dispatch")]
    /\ UNCHANGED <<emails, inbound, dbID, route, finalStatus, ret, expired, sends, draft,
                   currentEmail, outbox, posts, pending, fetched, toolCalls, ppRet, nanos>>
    /\ UNCHANGED notPipe

\* Process, step 4, case forward: processForward fails without forward_to,
\* else binds the email tool to the inbound email.
DispatchForward(t) ==
    /\ pc[t] = "dispatch"
    /\ route[t].ProcessorType = ProcessorTypeForward
    /\ IF route[t].Config.forward_to = ""
       THEN /\ processErr' = [processErr EXCEPT ![t] = ErrForwardTo]
            /\ trace' = [trace EXCEPT ![t] = @ \o <<"dispatch_start", "dispatch_end">>]
            /\ pc' = [pc EXCEPT ![t] = StepAfter("dispatch")]
            /\ UNCHANGED currentEmail
       ELSE /\ currentEmail' = inbound[t]
            /\ trace' = [trace EXCEPT ![t] = Append(@, "dispatch_start")]
            /\ pc' = [pc EXCEPT ![t] = "forward"]
            /\ UNCHANGED processErr
    /\ UNCHANGED <<emails, inbound, dbID, route, finalStatus, ret, expired, sends, draft,
                   outbox, posts, pending, fetched, toolCalls, ppRet, nanos, logs>>
    /\ UNCHANGED notPipe

\* processForward's emailTool.Execute: executeForward quotes the tool's
\* current email and sends to forward_to; a send failure comes back as an
\* error result with a nil error.
ForwardExecute(t) ==
    /\ pc[t] = "forward"
    /\ \E sent \in BOOLEAN :
        outbox' = IF ~sent \/ currentEmail = NilEmail THEN outbox
                  ELSE outbox \cup {[during    |-> inbound[t],
                                     action    |-> "forward",
                                     To        |-> route[t].Config.forward_to,
                                     InReplyTo |-> NoMessageID,
                                     Quoted    |-> currentEmail.MessageID]}
    /\ processErr' = [processErr EXCEPT ![t] = ""]
    /\ trace' = [trace EXCEPT ![t] = Append(@, "dispatch_end")]
    /\ pc' = [pc EXCEPT ![t] = StepAfter("dispatch")]
    /\ UNCHANGED <<emails, inbound, dbID, route, finalStatus, ret, expired, sends, draft,
                   currentEmail, posts, pending, fetched, toolCalls, ppRet, nanos, logs>>
    /\ UNCHANGED notPipe

\* Process, step 4, case webhook: processWebhook fails without webhook_url,
\* else POSTs; a failed request comes back as an error result with a nil
\* error.
DispatchWebhook(t) ==
    /\ pc[t] = "dispatch"
    /\ route[t].ProcessorType = ProcessorTypeWebhook
    /\ IF route[t].Config.webhook_url = ""
       THEN /\ processErr' = [processErr EXCEPT ![t] = ErrWebhookURL]
            /\ UNCHANGED posts
       ELSE /\ processErr' = [processErr EXCEPT ![t] = ""]
            /\ \E sent \in ContextOutcomes(t) :
                 posts' = IF sent THEN posts \cup {dbID[t]} ELSE posts
    /\ trace' = [trace EXCEPT ![t] = @ \o <<"dispatch_start", "dispatch_end">>]
    /\ pc' = [pc EXCEPT ![t] = StepAfter("dispatch")]
    /\ UNCHANGED <<emails, inbound, dbID, route, finalStatus, ret, expired, sends, draft,
                   currentEmail, outbox, pending, fetched, toolCalls, ppRet, nanos, logs>>
    /\ UNCHANGED notPipe

\* Process, step 4, case noop, and any type the switch has no case for:
\* nothing is done and processErr stays nil.
DispatchNoop(t) ==
    /\ pc[t] = "dispatch"
    /\ route[t].ProcessorType \notin
           {ProcessorTypeLLM, ProcessorTypeForward, ProcessorTypeWebhook}
    /\ trace' = [trace EXCEPT ![t] = @ \o <<"dispatch_start", "dispatch_end">>]
    /\ pc' = [pc EXCEPT ![t] = StepAfter("dispatch")]
    /\ UNCHANGED <<emails, inbound, dbID, route, processErr, finalStatus, ret, expired,
                   sends, draft, currentEmail, outbox, posts, pending, fetched, toolCalls, ppRet, nanos, logs>>
    /\ UNCHANGED notPipe

\* Process, steps 5 and 6: choose finalStatus, UpdateEmailStatus (an error is
\* logged only), return processErr.
ProcessFinish(t) ==
    /\ pc[t] = "final"
    /\ finalStatus' = [finalStatus EXCEPT ![t] = FinalStatus(processErr[t])]
    /\ \E ok \in ContextOutcomes(t) :
        IF ok
        THEN /\ emails' = UpdateEmailStatus(emails, dbID[t], FinalStatus(processErr[t]))
             /\ trace' = [trace EXCEPT ![t] = Append(@, "store_terminal")]
        ELSE UNCHANGED <<emails, trace>>
    /\ Return(t, processErr[t])
    /\ UNCHANGED <<inbound, dbID, route, processErr, expired, sends, draft,
                   currentEmail, outbox, posts, ppRet, nanos, logs>>
    /\ UNCHANGED notPipe

\* The 5-minute deadline of the context smtpSession.Data runs Process under
\* passes while the call is running.
Deadline(t) ==
    /\ t \in Handlers
    /\ pc[t] \notin {"done", "idle"}
    /\ ~expired[t]
    /\ expired' = [expired EXCEPT ![t] = TRUE]
    /\ UNCHANGED <<emails, pc, inbound, dbID, route, processErr, finalStatus, ret, sends,
                   draft, trace, currentEmail, outbox, posts, pending, fetched, toolCalls, ppRet, nanos, logs>>
    /\ UNCHANGED notPipe

\* ProcessPending: GetPendingEmails(limit); an error returns "failed to get
\* pending emails".
PendingFetch ==
    /\ pc[Replayer] = "pp_fetch"
    /\ \E limit \in Limits, ok \in ContextOutcomes(Replayer) :
        IF ok
        THEN /\ pending' = GetPendingEmails(emails, limit)
             /\ fetched' = {pending'[k] : k \in 1..Len(pending')}
             /\ pc' = [pc EXCEPT ![Replayer] = "pp_loop"]
             /\ UNCHANGED ppRet
        ELSE /\ ppRet' = ErrGetPending
             /\ pc' = [pc EXCEPT ![Replayer] = "done"]
             /\ UNCHANGED <<pending, fetched>>
    /\ UNCHANGED <<emails, inbound, dbID, route, processErr, finalStatus, ret, expired,
                   sends, draft, trace, currentEmail, outbox, posts, toolCalls, nanos, logs>>
    /\ UNCHANGED notPipe

\* ProcessPending, loop body, parser.Parse fails: the row is written failed
\* (the result of the update is dropped) and the loop continues.
PendingParseFails ==
    /\ pc[Replayer] = "pp_loop"
    /\ pending # <<>>
    /\ \E ok \in ContextOutcomes(Replayer) :
        emails' = IF ok THEN UpdateEmailStatus(emails, Head(pending), EmailStatusFailed)
                  ELSE emails
    /\ pending' = Tail(pending)
    /\ UNCHANGED <<fetched, toolCalls>>
    /\ UNCHANGED <<pc, inbound, dbID, route, processErr, finalStatus, ret, expired, sends,
                   draft, trace, currentEmail, outbox, posts, ppRet, nanos, logs>>
    /\ UNCHANGED notPipe

\* ProcessPending, loop body, parser.Parse succeeds: Process is called with
\* the parsed message.
PendingReenter ==
    /\ pc[Replayer] = "pp_loop"
    /\ pending # <<>>
    /\ nanos' = nanos + 1
    /\ inbound' = [inbound EXCEPT ![Replayer] = ParseStored(nanos + 1)]
    /\ dbID' = [dbID EXCEPT ![Replayer] = 0]
    /\ route' = [route EXCEPT ![Replayer] = NoResult]
    /\ processErr' = [processErr EXCEPT ![Replayer] = ""]
    /\ finalStatus' = [finalStatus EXCEPT ![Replayer] = ""]
    /\ ret' = [ret EXCEPT ![Replayer] = NotReturned]
    /\ trace' = [trace EXCEPT ![Replayer] = <<>>]
    /\ pc' = [pc EXCEPT ![Replayer] = "save"]
    /\ UNCHANGED <<emails, expired, sends, draft, currentEmail, outbox, posts, pending, fetched, toolCalls,
                   ppRet, logs>>
    /\ UNCHANGED notPipe

\* ProcessPending, after the last row: return nil.
PendingDone ==
    /\ pc[Replayer] = "pp_loop"
    /\ pending = <<>>
    /\ ppRet' = ""
    /\ pc' = [pc EXCEPT ![Replayer] = "done"]
    /\ UNCHANGED <<emails, inbound, dbID, route, processErr, finalStatus, ret, expired,
                   sends, draft, trace, currentEmail, outbox, posts, pending, fetched, toolCalls, nanos, logs>>
    /\ UNCHANGED notPipe

\* ------------------------------------------------------------------------
\* MCP client: ServerConnection.request and ServerConnection.readResponses
\* over one stdio connection
\* ------------------------------------------------------------------------

\* Requests the callers make on the connection, all told.
MaxRequests == 2

\* Response lines the server writes, all told.
MaxResponses == 2

\* The goroutines that call request at the same time (tool calls of
\* concurrent dispatches).
Callers == {"c1", "c2"}

\* Capacity of a request's response channel: make(chan *JSONRPCResponse, 1).
ChanCap == 1

NoLine == [id |-> 0, error |-> FALSE, n |-> 0]

\* The lines the server may write next: the id of any request made so far
\* (answered already or not) or of the one to come, as a result or as a
\* JSON-RPC error; n tells the lines apart.
ServerLines ==
    {[id |-> i, error |-> e, n |-> emitted + 1] :
        i \in 1..(reqID + 1), e \in BOOLEAN}

\* delete(c.pending, id)
DeletePending(p, id) == [i \in DOMAIN p \ {id} |-> p[i]]

MCPInit ==
    /\ reqID = 0
    /\ mcpPending = <<>>
    /\ mu = "free"
    /\ callPc = [c \in Callers |-> "idle"]
    /\ callID = [c \in Callers |-> 0]
    /\ stdout = <<>>
    /\ emitted = 0
    /\ readerPc = "scan"
    /\ readerLine = NoLine
    /\ returned = <<>>
    /\ discarded = {}

\* No MCP server is connected (the other specifications).
MCPIdle ==
    /\ reqID = 0
    /\ mcpPending = <<>>
    /\ mu = "free"
    /\ callPc = [c \in Callers |-> "off"]
    /\ callID = [c \in Callers |-> 0]
    /\ stdout = <<>>
    /\ emitted = 0
    /\ readerPc = "off"
    /\ readerLine = NoLine
    /\ returned = <<>>
    /\ discarded = {}

\* request: id := c.reqID.Add(1), under a context that is not yet cancelled.
RequestStart(c) ==
    /\ callPc[c] = "idle"
    /\ reqID < MaxRequests
    /\ reqID' = reqID + 1
    /\ callID' = [callID EXCEPT ![c] = reqID + 1]
    /\ callPc' = [callPc EXCEPT ![c] = "register"]
    /\ UNCHANGED <<mcpPending, mu, stdout, emitted, readerPc, readerLine,
                   returned, discarded>>
    /\ UNCHANGED notMCP

\* request: c.pending[id] = respCh, under c.mu.
RequestRegister(c) ==
    /\ callPc[c] = "register"
    /\ mu = "free"
    /\ mcpPending' = (callID[c] :> <<>>) @@ mcpPending
    /\ callPc' = [callPc EXCEPT ![c] = "send"]
    /\ UNCHANGED <<reqID, mu, callID, stdout, emitted, readerPc,
                   readerLine, returned, discarded>>
    /\ UNCHANGED notMCP

\* request: json.Marshal and c.stdin.Write; either may fail, and the
\* function then returns through its deferred delete.
RequestSend(c) ==
    /\ callPc[c] = "send"
    /\ \E outcome \in {"written", "marshal failed", "failed to write request"} :
        IF outcome = "written"
        THEN /\ callPc' = [callPc EXCEPT ![c] = "wait"]
             /\ UNCHANGED returned
        ELSE /\ returned' = (callID[c] :> [kind |-> outcome, resp |-> NoLine]) @@ returned
             /\ callPc' = [callPc EXCEPT ![c] = "cleanup"]
    /\ UNCHANGED <<reqID, mcpPending, mu, callID, stdout, emitted, readerPc,
                   readerLine, discarded>>
    /\ UNCHANGED notMCP

\* request, select case resp := <-respCh: a JSON-RPC error becomes an error,
\* anything else is returned.
RequestReceive(c) ==
    /\ callPc[c] = "wait"
    /\ mcpPending[callID[c]] # <<>>
    /\ LET r == Head(mcpPending[callID[c]]) IN
       returned' = (callID[c] :> [kind |-> IF r.error THEN "MCP error" ELSE "response",
                                  resp |-> r]) @@ returned
    /\ mcpPending' = [mcpPending EXCEPT ![callID[c]] = Tail(@)]
    /\ callPc' = [callPc EXCEPT ![c] = "cleanup"]
    /\ UNCHANGED <<reqID, mu, callID, stdout, emitted, readerPc,
                   readerLine, discarded>>
    /\ UNCHANGED notMCP

\* A request that returns on cancellation without its deferred delete.
RequestCancelledWithoutDelete(c) ==
    /\ callPc[c] = "wait"
    /\ returned' = (callID[c] :> [kind |-> "context canceled", resp |-> NoLine]) @@ returned
    /\ callPc' = [callPc EXCEPT ![c] = "idle"]
    /\ UNCHANGED <<reqID, mcpPending, mu, callID, stdout, emitted, readerPc, readerLine,
                   discarded>>
    /\ UNCHANGED notMCP

\* request, select case <-ctx.Done(): the caller's context is cancelled or
\* runs out while the request waits, and request returns ctx.Err().  (A
\* context that ends earlier is first looked at here.)
RequestCancelled(c) ==
    /\ callPc[c] = "wait"
    /\ returned' = (callID[c] :> [kind |-> "context canceled", resp |-> NoLine]) @@ returned
    /\ callPc' = [callPc EXCEPT ![c] = "cleanup"]
    /\ UNCHANGED <<reqID, mcpPending, mu, callID, stdout, emitted,
                   readerPc, readerLine, discarded>>
    /\ UNCHANGED notMCP

\* request, the deferred function: delete(c.pending, id) under c.mu; the
\* call has returned.
RequestCleanup(c) ==
    /\ callPc[c] = "cleanup"
    /\ mu = "free"
    /\ mcpPending' = DeletePending(mcpPending, callID[c])
    /\ callPc' = [callPc EXCEPT ![c] = "idle"]
    /\ UNCHANGED <<reqID, mu, callID, stdout, emitted, readerPc,
                   readerLine, returned, discarded>>
    /\ UNCHANGED notMCP

\* The server process writes a response line to its stdout.  One unread
\* line is kept in the pipe: a longer backlog only delays the scans, and a
\* scan acts on the state it finds when it happens.
ServerWrites ==
    /\ readerPc # "off"
    /\ emitted < MaxResponses
    /\ stdout = <<>>
    /\ \E line \in ServerLines : stdout' = Append(stdout, line)
    /\ emitted' = emitted + 1
    /\ UNCHANGED <<reqID, mcpPending, mu, callPc, callID, readerPc,
                   readerLine, returned, discarded>>
    /\ UNCHANGED notMCP

\* A reader that hands a line without pending entry to a waiting request.
ReaderScansToAnyPending ==
    /\ readerPc = "scan"
    /\ stdout # <<>>
    /\ mu = "free"
    /\ LET line == Head(stdout)
           free == {i \in DOMAIN mcpPending : Len(mcpPending[i]) < ChanCap} IN
       IF line.id \in free \/ (line.id \notin DOMAIN mcpPending /\ free # {})
       THEN /\ \E i \in (IF line.id \in free THEN {line.id} ELSE free) :
                  mcpPending' = [mcpPending EXCEPT ![i] = Append(@, line)]
            /\ UNCHANGED <<mu, readerPc, readerLine, discarded>>
       ELSE IF line.id \notin DOMAIN mcpPending
       THEN /\ discarded' = discarded \cup {line}
            /\ UNCHANGED <<mcpPending, mu, readerPc, readerLine>>
       ELSE /\ mu' = "reader"
            /\ readerPc' = "blocked"
            /\ readerLine' = line
            /\ UNCHANGED <<mcpPending, discarded>>
    /\ stdout' = Tail(stdout)
    /\ UNCHANGED <<reqID, callPc, callID, emitted, returned>>
    /\ UNCHANGED notMCP

\* readResponses, one scanned line: under c.mu, look the id up in c.pending
\* and send the response on its channel; the send blocks, with the mutex
\* held, while the channel's buffer is full; a line without entry is dropped.
ReaderScans ==
    /\ readerPc = "scan"
    /\ stdout # <<>>
    /\ mu = "free"
    /\ LET line == Head(stdout) IN
       IF line.id \notin DOMAIN mcpPending
       THEN /\ discarded' = discarded \cup {line}
            /\ UNCHANGED <<mcpPending, mu, readerPc, readerLine>>
       ELSE IF Len(mcpPending[line.id]) < ChanCap
       THEN /\ mcpPending' = [mcpPending EXCEPT ![line.id] = Append(@, line)]
            /\ UNCHANGED <<mu, readerPc, readerLine, discarded>>
       ELSE /\ mu' = "reader"
            /\ readerPc' = "blocked"
            /\ readerLine' = line
            /\ UNCHANGED <<mcpPending, discarded>>
    /\ stdout' = Tail(stdout)
    /\ UNCHANGED <<reqID, callPc, callID, emitted, returned>>
    /\ UNCHANGED notMCP

\* readResponses, the blocked send goes through once the receiver has taken
\* the buffered response; the mutex is released.
ReaderUnblocks ==
    /\ readerPc = "blocked"
    /\ Len(mcpPending[readerLine.id]) < ChanCap
    /\ mcpPending' = [mcpPending EXCEPT ![readerLine.id] = Append(@, readerLine)]
    /\ mu' = "free"
    /\ readerPc' = "scan"
    /\ readerLine' = NoLine
    /\ UNCHANGED <<reqID, callPc, callID, stdout, emitted, returned,
                   discarded>>
    /\ UNCHANGED notMCP

\* ------------------------------------------------------------------------
\* database_query: DatabaseTool.Execute on one query
\* ------------------------------------------------------------------------

\* strings.ToUpper, character by character (the letters the model's texts
\* use).
RECURSIVE ToUpper(_)
ToUpper(s) ==
    IF s = "" THEN ""
    ELSE LET c == Head(s)
             u == CASE c = "a" -> "A" [] c = "c" -> "C" [] c = "d" -> "D"
                    [] c = "e" -> "E" [] c = "l" -> "L" [] c = "m" -> "M"
                    [] c = "n" -> "N" [] c = "o" -> "O" [] c = "p" -> "P"
                    [] c = "r" -> "R" [] c = "s" -> "S" [] c = "t" -> "T"
                    [] c = "u" -> "U" [] c = "i" -> "I" [] c = "f" -> "F"
                    [] c = "x" -> "X" [] OTHER -> c
         IN u \o ToUpper(Tail(s))

\* strings.TrimSpace: the white space of the model's texts is cut off at
\* both ends.
RECURSIVE TrimLeft(_)
TrimLeft(s) ==
    IF s # "" /\ Head(s) \in {" ", "\t", "\n"} THEN TrimLeft(Tail(s)) ELSE s

RECURSIVE TrimRight(_)
TrimRight(s) ==
    IF s # "" /\ SubSeq(s, Len(s), Len(s)) \in {" ", "\t", "\n"}
    THEN TrimRight(SubSeq(s, 1, Len(s) - 1))
    ELSE s

TrimSpace(s) == TrimRight(TrimLeft(s))

\* strings.HasPrefix
HasPrefix(s, prefix) == Len(s) >= Len(prefix) /\ SubSeq(s, 1, Len(prefix)) = prefix

\* strings.Contains
Contains(s, sub) ==
    \E i \in 1..(Len(s) - Len(sub) + 1) : SubSeq(s, i, i + Len(sub) - 1) = sub

\* The queries the model calls the tool with: leading blanks or none, a
\* first word, the character after it, and the rest.
Queries ==
    {""} \cup
    {lead \o word \o gap \o rest :
        lead \in {"", " ", "\n "},
        word \in {"select", "SELECT", "Select", "insert", "delete", "drop", "DROP",
                  "truncate", "alter", "create"},
        gap  \in {" ", "\t", "\n", "*", "ed "},
        rest \in {"1", "x from t", "table t", "note from t where note = 'drop it'"}}

ErrQueryRequired == "{\"success\":false,\"error\":\"query is required\"}"
ErrReadOnly ==
    "{\"success\":false,\"error\":\"only SELECT queries are allowed in read-only mode\"}"
ErrDDL == "{\"success\":false,\"error\":\"DDL operations are not allowed\"}"

\* Mutant of ValidateQuery: the read-only setting is not looked at.
ValidateQueryIgnoringReadOnly(readOnly, query) ==
    LET queryUpper == ToUpper(TrimSpace(query))
        isSelect   == HasPrefix(queryUpper, "SELECT") IN
    IF query = ""
    THEN [refused |-> ErrQueryRequired, run |-> ""]
    ELSE IF \/ Contains(queryUpper, "DROP ")
            \/ Contains(queryUpper, "TRUNCATE ")
            \/ Contains(queryUpper, "ALTER ")
            \/ Contains(queryUpper, "CREATE ")
    THEN [refused |-> ErrDDL, run |-> ""]
    ELSE [refused |-> "", run |-> IF isSelect THEN "executeSelect" ELSE "executeModify"]

\* DatabaseTool.Execute up to the database call: the envelope it returns
\* without running anything, or the database call it goes on to make.
ValidateQuery(readOnly, query) ==
    LET queryUpper == ToUpper(TrimSpace(query))
        isSelect   == HasPrefix(queryUpper, "SELECT") IN
    IF query = ""
    THEN [refused |-> ErrQueryRequired, run |-> ""]
    ELSE IF readOnly /\ ~isSelect
    THEN [refused |-> ErrReadOnly, run |-> ""]
    ELSE IF \/ Contains(queryUpper, "DROP ")
            \/ Contains(queryUpper, "TRUNCATE ")
            \/ Contains(queryUpper, "ALTER ")
            \/ Contains(queryUpper, "CREATE ")
    THEN [refused |-> ErrDDL, run |-> ""]
    ELSE [refused |-> "", run |-> IF isSelect THEN "executeSelect" ELSE "executeModify"]

DBInit ==
    /\ dbReadOnly \in BOOLEAN
    /\ dbQuery \in Queries
    /\ dbPc = "call"
    /\ dbResult = ""
    /\ dbRan = ""

\* No database_query call (the other specifications).
DBIdle ==
    /\ dbReadOnly = FALSE
    /\ dbQuery = ""
    /\ dbPc = "idle"
    /\ dbResult = ""
    /\ dbRan = ""

\* DatabaseTool.Execute: a refused query returns its error envelope; any
\* other runs on the database through QueryContext or ExecContext and
\* returns what came of it, as a success or an error envelope.
DatabaseExecute ==
    /\ dbPc = "call"
    /\ LET v == ValidateQuery(dbReadOnly, dbQuery) IN
       IF v.refused # ""
       THEN /\ dbResult' = v.refused
            /\ dbRan' = ""
       ELSE /\ dbRan' = v.run
            /\ \E ok \in BOOLEAN :
                 dbResult' = IF ok THEN "{\"success\":true,\"data\":{}}"
                             ELSE "{\"success\":false,\"error\":\"query failed\"}"
    /\ dbPc' = "done"
    /\ UNCHANGED <<dbReadOnly, dbQuery>>
    /\ UNCHANGED notDB

\* ------------------------------------------------------------------------
\* The MCP client: connecting servers, registering and calling their tools
\* (internal/mcp/client.go, internal/tools/registry.go)
\* ------------------------------------------------------------------------
MaxConns == 2      \* connections made in one run
MaxCalls == 1      \* tools/call requests written in one run

ServerNames == {"srv", "aux"}

\* What a server may answer to tools/list: the names of its tools.
ToolLists == {{"echo"}, {"echo", "text"}}

\* The arguments of a tool call as the model produced them; the second is
\* cut short and is no JSON.
ToolArgs == {"{\"text\":\"hi\"}", "{\"text\":"}

\* json.Marshal of the request accepts a RawMessage that is valid JSON.
JSONValid(args) == args = "{\"text\":\"hi\"}"

\* What a server may answer to tools/call.
ToolReplies ==
    {MCPReply(n) : n \in {"srv:echo", "srv:text", "srv:image", "srv:array"}} \cup
    {[Result  |-> "{\"content\":[],\"isError\":true}",
      parses  |-> TRUE, IsError |-> TRUE, Content |-> <<>>],
     [Result  |-> "{\"content\":[{\"type\":\"image\",\"data\":\"aGk=\"},{\"type\":\"text\",\"text\":\"hi\"}]}",
      parses  |-> TRUE, IsError |-> FALSE,
      Content |-> <<[Type |-> "image", Text |-> ""], [Type |-> "text", Text |-> "hi"]>>]}

NoReply == [Result |-> "", parses |-> FALSE, IsError |-> FALSE, Content |-> <<>>]

NoCall ==
    [name |-> "", mcpName |-> "", conn |-> 0, args |-> "", sent |-> FALSE,
     answered |-> FALSE, reply |-> NoReply, out |-> [result |-> "", err |-> ""]]

\* The configs of one Connect call, by server name.
ConfigLists ==
    {<<>>, <<"srv">>, <<"srv", "aux">>, <<"srv", "srv">>}

\* The tools/call requests written so far, on all connections.
CallsWritten ==
    Cardinality({<<c, k>> \in (1..Len(conns)) \X (1..(3 + MaxCalls)) :
                    k <= Len(conns[c].wire) /\ conns[c].wire[k].method = "tools/call"})

\* A JSON-RPC message written to a child's stdin; id 0 is a message without
\* id (omitempty on a nil pointer).
Message(method, id, name, arguments) ==
    [method |-> method, id |-> id, name |-> name, arguments |-> arguments]

\* reqID.Add(1): requests are numbered from 1 on each connection.
NextID(wire) == Cardinality({k \in 1..Len(wire) : wire[k].id # 0}) + 1

\* ServerConnection.Close
Close(conn) ==
    [conn EXCEPT !.stdin = "closed", !.stdout = "closed", !.running = FALSE]

\* ServerConnection.GetTools: the MCPTools Initialize built.
ConnTools(c) ==
    {[name |-> conns[c].name \o ":" \o t, mcpName |-> t, conn |-> c] :
        t \in conns[c].tools}

\* Client.GetTools: the tools of every connection in c.servers.
GetTools ==
    UNION {ConnTools(servers[n]) : n \in {m \in ServerNames : servers[m] # 0}}

ClientInit ==
    /\ servers = [n \in ServerNames |-> 0]
    /\ conns = <<>>
    /\ registry = {}
    /\ connectRest = <<>>
    /\ connectPc = "idle"
    /\ connectRet = "none"
    /\ lastConnect = [n \in ServerNames |-> "none"]
    /\ registered = FALSE
    /\ lastCall = NoCall

\* Client.Connect is called with a list of configs.
Connect ==
    /\ connectRet # "running"
    /\ connectPc = "idle"
    /\ \E configs \in ConfigLists : connectRest' = configs
    /\ connectRet' = "running"
    /\ UNCHANGED <<servers, conns, registry, connectPc, lastConnect, registered, lastCall>>
    /\ UNCHANGED notClient

\* Client.Connect: the loop is over, nil is returned.
ConnectReturns ==
    /\ connectRet = "running"
    /\ connectPc = "idle"
    /\ connectRest = <<>>
    /\ connectRet' = "nil"
    /\ UNCHANGED <<servers, conns, registry, connectRest, connectPc, lastConnect,
                   registered, lastCall>>
    /\ UNCHANGED notClient

\* ConnectServer returns an error, after closing the connection it made if
\* it got as far as Initialize; Connect logs it and goes on.
ConnectServerFails(made) ==
    /\ conns' = IF made THEN [conns EXCEPT ![Len(conns)] = Close(@)] ELSE conns
    /\ lastConnect' = [lastConnect EXCEPT ![Head(connectRest)] = "failed"]
    /\ connectRest' = Tail(connectRest)
    /\ connectPc' = "idle"
    /\ UNCHANGED <<servers, registry, connectRet, registered, lastCall>>
    /\ UNCHANGED notClient

\* One more message written on the connection being set up.
HandshakeWrites(message, next) ==
    /\ conns' = [conns EXCEPT ![Len(conns)].wire = Append(@, message)]
    /\ connectPc' = next
    /\ UNCHANGED <<servers, registry, connectRest, connectRet, lastConnect,
                   registered, lastCall>>
    /\ UNCHANGED notClient

\* Mutant of ConnectServerLock: the existing connection is left running.
ConnectServerLockKeepingExisting ==
    /\ connectRet = "running"
    /\ connectPc = "idle"
    /\ connectRest # <<>>
    /\ Len(conns) < MaxConns
    /\ connectPc' = "locked"
    /\ UNCHANGED <<servers, conns, registry, connectRest, connectRet, lastConnect,
                   registered, lastCall>>
    /\ UNCHANGED notClient

\* ConnectServer takes the client's lock and closes the connection c.servers
\* holds for the name, if any.
ConnectServerLock ==
    /\ connectRet = "running"
    /\ connectPc = "idle"
    /\ connectRest # <<>>
    /\ Len(conns) < MaxConns
    /\ LET existing == servers[Head(connectRest)] IN
       conns' = IF existing # 0 THEN [conns EXCEPT ![existing] = Close(@)] ELSE conns
    /\ connectPc' = "locked"
    /\ UNCHANGED <<servers, registry, connectRest, connectRet, lastConnect,
                   registered, lastCall>>
    /\ UNCHANGED notClient

\* NewServerConnection: the child is started with its two pipes, or one of
\* the three steps fails and ConnectServer returns the error.
NewServerConnection ==
    /\ connectPc = "locked"
    /\ \/ /\ conns' = Append(conns,
                         [name |-> Head(connectRest), stdin |-> "open",
                          stdout |-> "open", running |-> TRUE,
                          initialized |-> FALSE, tools |-> {}, wire |-> <<>>])
          /\ connectPc' = "spawned"
          /\ UNCHANGED <<servers, registry, connectRest, connectRet, lastConnect,
                         registered, lastCall>>
          /\ UNCHANGED notClient
       \/ ConnectServerFails(FALSE)

\* Initialize: the initialize request is written, or the write fails.
InitializeRequest ==
    /\ connectPc = "spawned"
    /\ \/ HandshakeWrites(Message("initialize", NextID(conns[Len(conns)].wire), "", ""),
                          "initSent")
       \/ ConnectServerFails(TRUE)

\* Initialize: request returns the response to initialize, or an error (an
\* error response, or the context is done).
InitializeResponse ==
    /\ connectPc = "initSent"
    /\ \/ /\ connectPc' = "initOk"
          /\ UNCHANGED <<servers, conns, registry, connectRest, connectRet,
                         lastConnect, registered, lastCall>>
          /\ UNCHANGED notClient
       \/ ConnectServerFails(TRUE)

\* Mutant of NotifyInitialized: the notification carries a request id.
NotifyInitializedWithID ==
    /\ connectPc = "initOk"
    /\ \/ HandshakeWrites(Message("notifications/initialized",
                                  NextID(conns[Len(conns)].wire), "", ""), "notified")
       \/ ConnectServerFails(TRUE)

\* Initialize: the notifications/initialized notification is written.
NotifyInitialized ==
    /\ connectPc = "initOk"
    /\ \/ HandshakeWrites(Message("notifications/initialized", 0, "", ""), "notified")
       \/ ConnectServerFails(TRUE)

\* Initialize: the tools/list request is written.
ToolsListRequest ==
    /\ connectPc = "notified"
    /\ \/ HandshakeWrites(Message("tools/list", NextID(conns[Len(conns)].wire), "", ""),
                          "listSent")
       \/ ConnectServerFails(TRUE)

\* Initialize: the answer to tools/list is parsed and the connection's tools
\* are built; ConnectServer then stores the connection under its name and
\* returns nil.  Or request fails, or the answer does not parse.
ToolsListResponse ==
    /\ connectPc = "listSent"
    /\ \/ /\ \E list \in ToolLists :
               conns' = [conns EXCEPT ![Len(conns)].tools = list,
                                      ![Len(conns)].initialized = TRUE]
          /\ servers' = [servers EXCEPT ![Head(connectRest)] = Len(conns)]
          /\ lastConnect' = [lastConnect EXCEPT ![Head(connectRest)] = "ok"]
          /\ connectRest' = Tail(connectRest)
          /\ connectPc' = "idle"
          /\ registered' = FALSE
          /\ UNCHANGED <<registry, connectRet, lastCall>>
          /\ UNCHANGED notClient
       \/ ConnectServerFails(TRUE)

\* Registry.Register that adds the tool beside an entry of the same name.
RegisterBesideExisting(reg, tool) == reg \cup {tool}

\* Registry.Register: r.tools[tool.Name()] = tool.
Register(reg, tool) == {e \in reg : e.name # tool.name} \cup {tool}

\* Registry.Get: the entry under the name, NoTool when there is none.
NoTool == [name |-> "", mcpName |-> "", conn |-> 0]

RegistryGet(reg, name) ==
    IF \E e \in reg : e.name = name THEN CHOOSE e \in reg : e.name = name ELSE NoTool

\* The loop of Client.RegisterTools over the tools GetTools returned.
RECURSIVE RegisterAll(_, _)
RegisterAll(reg, ts) ==
    IF ts = {} THEN reg
    ELSE LET t == CHOOSE x \in ts : TRUE IN RegisterAll(Register(reg, t), ts \ {t})

\* Client.RegisterTools: every tool GetTools returns is registered.
\* GetTools waits for the client's lock.
RegisterTools ==
    /\ connectPc = "idle"
    /\ registry' = RegisterAll(registry, GetTools)
    /\ registered' = TRUE
    /\ UNCHANGED <<servers, conns, connectRest, connectPc, connectRet, lastConnect,
                   lastCall>>
    /\ UNCHANGED notClient

\* Registry.Execute of a registered name: Get, then MCPTool.Execute, which is
\* CallTool on the tool's connection with the tool's own name.  request fails when the arguments do not
\* marshal or the write fails; else the request is written and the
\* response, or an error, comes back.
MCPToolExecute ==
    \E name \in {e.name : e \in registry}, args \in ToolArgs :
        LET tool == RegistryGet(registry, name)
            c == tool.conn
            call == [name |-> tool.name, mcpName |-> tool.mcpName, conn |-> c,
                     args |-> args, sent |-> FALSE, answered |-> FALSE,
                     reply |-> NoReply, out |-> [result |-> "", err |-> ""]]
        IN
        /\ CallsWritten < MaxCalls
        /\ IF ~JSONValid(args)
           THEN /\ lastCall' = [call EXCEPT !.out.err = "json: error calling MarshalJSON"]
                /\ UNCHANGED conns
           ELSE IF conns[c].stdin # "open"
           THEN /\ lastCall' = [call EXCEPT !.out.err = "failed to write request"]
                /\ UNCHANGED conns
           ELSE /\ conns' = [conns EXCEPT ![c].wire =
                                Append(@, Message("tools/call", NextID(@),
                                                  tool.mcpName, args))]
                /\ \/ \E reply \in ToolReplies :
                        lastCall' = [call EXCEPT !.sent = TRUE, !.answered = TRUE,
                                                 !.reply = reply,
                                                 !.out = CallToolResult(reply)]
                   \/ lastCall' = [call EXCEPT !.sent = TRUE,
                                               !.out.err = "MCP error"]
        /\ UNCHANGED <<servers, registry, connectRest, connectPc, connectRet,
                       lastConnect, registered>>
        /\ UNCHANGED notClient

\* ------------------------------------------------------------------------
\* The SMTP session: RCPT TO under the domain allow-list, DATA and the
\* hand-off to the handler (package smtp)
\* ------------------------------------------------------------------------
MaxRcpt == 1     \* recipients of one transaction
MaxData == 1     \* DATA commands of one run

\* strings.ToLower, character by character.
RECURSIVE ToLower(_)
ToLower(s) ==
    IF s = "" THEN ""
    ELSE LET upper == "ABCDEFGHIJKLMNOPQRSTUVWXYZ"
             lower == "abcdefghijklmnopqrstuvwxyz"
             c == Head(s)
             at == {k \in 1..Len(upper) : SubSeq(upper, k, k) = c}
             l == IF at = {} THEN c
                  ELSE LET k == CHOOSE k \in at : TRUE IN SubSeq(lower, k, k)
         IN l \o ToLower(Tail(s))

\* strings.Split on a separator of one character.
RECURSIVE Split(_, _)
Split(s, sep) ==
    IF ~Contains(s, sep) THEN <<s>>
    ELSE LET i == CHOOSE k \in 1..Len(s) :
                      /\ SubSeq(s, k, k) = sep
                      /\ \A j \in 1..(k - 1) : SubSeq(s, j, j) # sep
         IN <<SubSeq(s, 1, i - 1)>> \o Split(SubSeq(s, i + 1, Len(s)), sep)

\* The allow-lists of the configuration.
AllowLists == {<<>>, <<"example.com">>, <<"Other.ORG", "Example.Com">>}

\* The addresses of RCPT TO commands.
RcptAddresses ==
    {"a@example.com", "a@EXAMPLE.com", "a@other.com", "a@mail.example.com",
     "example.com", "a@", "a@b@example.com"}

\* The addresses of MAIL FROM commands.
MailAddresses == {"", "x@other.com"}

\* The messages of DATA commands: whether reading the data succeeds,
\* whether the parser accepts it, and the From and To it finds in the
\* headers.
DataMessages ==
    {[read |-> TRUE, parses |-> TRUE, From |-> "h@example.com", To |-> <<"a@example.com">>],
     [read |-> TRUE, parses |-> TRUE, From |-> "", To |-> <<>>],
     [read |-> TRUE, parses |-> FALSE, From |-> "", To |-> <<>>],
     [read |-> FALSE, parses |-> FALSE, From |-> "", To |-> <<>>]}

ReplyOK == [code |-> 250, enhanced |-> <<2, 0, 0>>, message |-> "OK"]
ReplyDomainNotAllowed ==
    [code |-> 550, enhanced |-> <<5, 7, 1>>, message |-> "Domain not allowed"]
ReplyParseFailed ==
    [code |-> 554, enhanced |-> <<5, 6, 0>>, message |-> "Failed to parse message"]
ReplyReadFailed == [code |-> 554, enhanced |-> <<5, 0, 0>>, message |-> "read error"]
NoSMTPReply == [command |-> "", argument |-> "", reply |-> ReplyOK]

\* Mutant of isAllowedDomain: the domain is compared as written.
isAllowedDomainCaseSensitive(allowed, addr) ==
    IF Len(allowed) = 0 THEN TRUE
    ELSE LET parts == Split(addr, "@") IN
         IF Len(parts) # 2 THEN FALSE
         ELSE \E k \in 1..Len(allowed) : allowed[k] = parts[2]

\* Server.isAllowedDomain
isAllowedDomain(allowed, addr) ==
    IF Len(allowed) = 0 THEN TRUE
    ELSE LET parts == Split(addr, "@") IN
         IF Len(parts) # 2 THEN FALSE
         ELSE \E k \in 1..Len(allowed) : ToLower(allowed[k]) = ToLower(parts[2])

\* Data: the envelope fills in what the headers lack.  The email is kept as
\* the parsed message and which of From and To the envelope gave.
WithEnvelope(parsed) ==
    [message      |-> parsed,
     fromEnvelope |-> parsed.From = "" /\ sessFrom # "",
     toEnvelope   |-> Len(parsed.To) = 0 /\ Len(sessTo) > 0]

SMTPInit ==
    /\ allowedDomains \in AllowLists
    /\ sessFrom = ""
    /\ sessTo = <<>>
    /\ smtpReply = NoSMTPReply
    /\ dataLog = <<>>
    /\ handlerTasks = <<>>

\* No SMTP session (the other specifications).
SMTPIdle ==
    /\ allowedDomains = <<>>
    /\ sessFrom = ""
    /\ sessTo = <<>>
    /\ smtpReply = NoSMTPReply
    /\ dataLog = <<>>
    /\ handlerTasks = <<>>

\* smtpSession.Mail
Mail ==
    /\ \E from \in MailAddresses :
          /\ sessFrom' = from
          /\ smtpReply' = [command |-> "MAIL", argument |-> from, reply |-> ReplyOK]
    /\ UNCHANGED <<allowedDomains, sessTo, dataLog, handlerTasks>>
    /\ UNCHANGED notSMTP

\* smtpSession.Rcpt
Rcpt ==
    /\ Len(sessTo) < MaxRcpt
    /\ \E to \in RcptAddresses :
          IF ~isAllowedDomain(allowedDomains, to)
          THEN /\ smtpReply' = [command |-> "RCPT", argument |-> to,
                                reply |-> ReplyDomainNotAllowed]
               /\ UNCHANGED sessTo
          ELSE /\ sessTo' = Append(sessTo, to)
               /\ smtpReply' = [command |-> "RCPT", argument |-> to, reply |-> ReplyOK]
    /\ UNCHANGED <<allowedDomains, sessFrom, dataLog, handlerTasks>>
    /\ UNCHANGED notSMTP

\* Mutant of Data: the handler is called before Data returns.
DataCallingHandlerInline ==
    /\ Len(dataLog) < MaxData
    /\ \E m \in DataMessages :
          LET reply == IF ~m.read THEN ReplyReadFailed
                       ELSE IF ~m.parses THEN ReplyParseFailed
                       ELSE ReplyOK
          IN
          /\ dataLog' = Append(dataLog, [message |-> m, reply |-> reply])
          /\ smtpReply' = [command |-> "DATA", argument |-> "", reply |-> reply]
          /\ handlerTasks' =
                IF m.read /\ m.parses
                THEN Append(handlerTasks,
                            [data |-> Len(dataLog) + 1, email |-> WithEnvelope(m),
                             calls |-> 1, state |-> "done"])
                ELSE handlerTasks
    /\ UNCHANGED <<allowedDomains, sessFrom, sessTo>>
    /\ UNCHANGED notSMTP

\* smtpSession.Data: the data is read and parsed; a failure of either is
\* returned; else the envelope fills the email in, a task is started for the
\* handler and nil is returned at once.
Data ==
    /\ Len(dataLog) < MaxData
    /\ \E m \in DataMessages :
          LET reply == IF ~m.read THEN ReplyReadFailed
                       ELSE IF ~m.parses THEN ReplyParseFailed
                       ELSE ReplyOK
          IN
          /\ dataLog' = Append(dataLog, [message |-> m, reply |-> reply])
          /\ smtpReply' = [command |-> "DATA", argument |-> "", reply |-> reply]
          /\ handlerTasks' =
                IF m.read /\ m.parses
                THEN Append(handlerTasks,
                            [data |-> Len(dataLog) + 1, email |-> WithEnvelope(m),
                             calls |-> 0, state |-> "started"])
                ELSE handlerTasks
    /\ UNCHANGED <<allowedDomains, sessFrom, sessTo>>
    /\ UNCHANGED notSMTP

\* smtpSession.Reset
Reset ==
    /\ sessFrom # "" \/ sessTo # <<>>
    /\ sessFrom' = ""
    /\ sessTo' = <<>>
    /\ smtpReply' = [command |-> "RSET", argument |-> "", reply |-> ReplyOK]
    /\ UNCHANGED <<allowedDomains, dataLog, handlerTasks>>
    /\ UNCHANGED notSMTP

\* The task Data started calls the handler with the parsed email.
HandlerCalled ==
    /\ \E k \in 1..Len(handlerTasks) :
          /\ handlerTasks[k].state = "started"
          /\ handlerTasks' = [handlerTasks EXCEPT ![k].state = "handling",
                                                  ![k].calls = @ + 1]
    /\ UNCHANGED <<allowedDomains, sessFrom, sessTo, smtpReply, dataLog>>
    /\ UNCHANGED notSMTP

\* The handler returns, with or without error, and the task ends.
HandlerReturned ==
    /\ \E k \in 1..Len(handlerTasks) :
          /\ handlerTasks[k].state = "handling"
          /\ handlerTasks' = [handlerTasks EXCEPT ![k].state = "done"]
    /\ UNCHANGED <<allowedDomains, sessFrom, sessTo, smtpReply, dataLog>>
    /\ UNCHANGED notSMTP

\* ------------------------------------------------------------------------
\* Specifications
\* ------------------------------------------------------------------------
\* The first four components at rest, and the added ones.
\* ------------------------------------------------------------------------
\* The email tool's reply: EmailTool.executeReply on one call
\* ------------------------------------------------------------------------

\* The nil *InboundEmail and the nil *Address.
NoCurrentEmail ==
    [MessageID |-> "", From |-> "", ReplyTo |-> "<nil>", Subject |-> "<nil>",
     Date |-> "", Body |-> ""]
NilAddress == "<nil>"

\* The emails SetCurrentEmail was called with: with and without Reply-To,
\* subjects with and without a reply prefix.
CurrentEmails ==
    {[MessageID |-> "<m@a.org>", From |-> "alice@a.org", ReplyTo |-> r, Subject |-> sj,
      Date |-> "Mon, 02 Jan 2006 15:04:05 -0700", Body |-> "Please help."] :
        r \in {NilAddress, "carol@c.org"},
        sj \in {"", "hello", "Re: hello", "RE: hello", "re:hello", "Regards", "Fwd: Re: hello"}}

\* The arguments of the call: subject given or not, include_original absent
\* (a nil *bool), true or false.
EmailArgsDrawn ==
    [Subject : {"", "Your ticket"}, Body : {"OK"},
     IncludeOriginal : {"<nil>", "true", "false"}]

NoEmailArgs == [Subject |-> "", Body |-> "", IncludeOriginal |-> "<nil>"]

\* executeReply's subject that prefixes every original subject.
ReplySubjectAlwaysPrefixed(given, original) ==
    IF given # "" THEN given ELSE "Re: " \o original

\* executeReply, "Build subject".
ReplySubject(given, original) ==
    IF given # "" THEN given
    ELSE IF ~HasPrefix(ToLower(original), "re:") THEN "Re: " \o original
    ELSE original

\* EmailTool.appendOriginalMessage
appendOriginalMessage(cur, body) ==
    IF cur = NoCurrentEmail THEN body
    ELSE body \o "\n\n---------- Original Message ----------\nFrom: " \o cur.From
              \o "\nDate: " \o cur.Date \o "\nSubject: " \o cur.Subject
              \o "\n\n" \o cur.Body

\* executeReply: the OutboundEmail it builds from the current email.
ReplyOutbound(cur, params) ==
    [To        |-> <<IF cur.ReplyTo # NilAddress THEN cur.ReplyTo ELSE cur.From>>,
     Subject   |-> ReplySubject(params.Subject, cur.Subject),
     TextBody  |-> IF params.IncludeOriginal = "true"
                   THEN appendOriginalMessage(cur, params.Body)
                   ELSE params.Body,
     InReplyTo |-> cur.MessageID]

ReplyInit ==
    /\ replyEmail \in CurrentEmails \cup {NoCurrentEmail}
    /\ emailArgs \in EmailArgsDrawn
    /\ replyPc = "call"
    /\ replySends = <<>>
    /\ replyResult = ""

\* No send_email call (the other specifications).
ReplyIdle ==
    /\ replyEmail = NoCurrentEmail
    /\ emailArgs = NoEmailArgs
    /\ replyPc = "idle"
    /\ replySends = <<>>
    /\ replyResult = ""

\* EmailTool.Execute with action "reply": without a current email an error
\* envelope; else the message is built and handed to sender.Send once, and
\* the envelope tells whether Send failed.
EmailToolExecuteReply ==
    /\ replyPc = "call"
    /\ IF replyEmail = NoCurrentEmail
       THEN /\ replyResult' = "{\"success\":false,\"error\":\"no current email to reply to\"}"
            /\ UNCHANGED replySends
       ELSE /\ replySends' = Append(replySends, ReplyOutbound(replyEmail, emailArgs))
            /\ \E ok \in BOOLEAN :
                 replyResult' =
                     IF ok THEN "{\"success\":true,\"data\":{\"sent\":true}}"
                     ELSE "{\"success\":false,\"error\":\"failed to send reply\"}"
    /\ replyPc' = "done"
    /\ UNCHANGED <<replyEmail, emailArgs>>
    /\ UNCHANGED notReply

\* ------------------------------------------------------------------------
\* The parser's body: Parser.parseBody on one message entity
\* ------------------------------------------------------------------------
\* Most parts of one multipart entity.
MaxParts == 3

\* A leaf entity and a multipart entity; the media type is what
\* Header.ContentType returns, without parameters.
Leaf(mediaType, disposition, filename, body) ==
    [mediaType |-> mediaType, disposition |-> disposition, filename |-> filename,
     body |-> body, parts |-> <<>>]
Multipart(parts) ==
    [mediaType |-> "multipart/mixed", disposition |-> "", filename |-> "", body |-> "",
     parts |-> parts]

\* The leaves messages are built from: two plain and two HTML bodies, an
\* attached text file, an image with a file name.
LeafParts ==
    {Leaf("text/plain", "", "", "first text"),
     Leaf("text/plain", "", "", "second text"),
     Leaf("text/html", "", "", "<p>first</p>"),
     Leaf("text/html", "inline", "", "<p>second</p>"),
     Leaf("text/plain", "attachment", "notes.txt", "attached"),
     Leaf("image/png", "", "logo.png", "PNG")}

\* The parts lists of a multipart entity.
PartLists == UNION {[1..n -> LeafParts] : n \in 1..MaxParts}

\* The messages Parse is given: a single part, a multipart of leaves, and a
\* multipart whose first part is itself a multipart.
Entities ==
    LeafParts \cup {Multipart(ps) : ps \in PartLists}
              \cup {Multipart(<<Multipart(<<a, b>>), c>>) : a, b, c \in LeafParts}

EmptyEmail == [TextBody |-> "", HTMLBody |-> "", Attachments |-> <<>>]

\* parseBody, "Check if it's an attachment".
IsAttachment(e) ==
    e.disposition = "attachment" \/ (e.filename # "" /\ e.disposition # "inline")

\* Parser.parseBody: a multipart entity is walked part by part, in order;
\* a leaf is an attachment, or a body part that sets TextBody or HTMLBody.
RECURSIVE parseBody(_, _)
RECURSIVE parseParts(_, _, _)
parseParts(parts, k, email) ==
    IF k > Len(parts) THEN email
    ELSE parseParts(parts, k + 1, parseBody(parts[k], email))

parseBody(e, email) ==
    IF HasPrefix(e.mediaType, "multipart/")
    THEN parseParts(e.parts, 1, email)
    ELSE IF IsAttachment(e)
    THEN [email EXCEPT !.Attachments =
              Append(@, [Filename |-> e.filename, ContentType |-> e.mediaType,
                         Data |-> e.body])]
    ELSE IF HasPrefix(e.mediaType, "text/plain")
    THEN [email EXCEPT !.TextBody = e.body]
    ELSE IF HasPrefix(e.mediaType, "text/html")
    THEN [email EXCEPT !.HTMLBody = e.body]
    ELSE email

ParseInit ==
    /\ entity \in Entities
    /\ parsedEmail = EmptyEmail
    /\ parsePc = "parse"

\* No Parse call (the other specifications).
ParseIdle ==
    /\ entity = Multipart(<<>>)
    /\ parsedEmail = EmptyEmail
    /\ parsePc = "idle"

\* Parser.Parse, "Parse body": parseBody fills the email, or reading a part
\* fails and Parse returns the error.
ParserParse ==
    /\ parsePc = "parse"
    /\ \/ /\ parsedEmail' = parseBody(entity, EmptyEmail)
          /\ parsePc' = "done"
       \/ /\ parsePc' = "failed to parse body"
          /\ UNCHANGED parsedEmail
    /\ UNCHANGED entity
    /\ UNCHANGED notParse

\* ------------------------------------------------------------------------
\* The tool registry on its own: Registry.Register, Get and Execute
\* ------------------------------------------------------------------------

\* The tools Register is called with: the MCP tools of a server's first and
\* second connection and of another server, two of them under one name.
ToolsDrawn ==
    {[name |-> n \o ":" \o t, mcpName |-> t, conn |-> c] :
        n \in {"srv"}, t \in {"echo", "text"}, c \in {1, 2}}
    \cup {[name |-> "aux:echo", mcpName |-> "echo", conn |-> 3]}

\* The names Execute is called with.
NamesDrawn == {t.name : t \in ToolsDrawn} \cup {"nosuch"}

NoExecute == [name |-> "", ran |-> NoTool, err |-> ""]

\* NewRegistry: an empty map.
RegistryInit ==
    /\ regTools = {}
    /\ regLast = NoTool
    /\ regExec = NoExecute

\* Registry.Register(tool)
RegistryRegister ==
    /\ \E tool \in ToolsDrawn :
        /\ regTools' = Register(regTools, tool)
        /\ regLast' = tool
    /\ UNCHANGED regExec
    /\ UNCHANGED notRegistry

\* Registry.Execute(name): Get, "unknown tool" without an entry, else the
\* tool's Execute.
RegistryExecuteCall ==
    /\ \E name \in NamesDrawn :
        LET tool == RegistryGet(regTools, name) IN
        regExec' = [name |-> name, ran |-> tool,
                    err  |-> IF tool = NoTool THEN "unknown tool: " \o name ELSE ""]
    /\ UNCHANGED <<regTools, regLast>>
    /\ UNCHANGED notRegistry

CoreIdle == RouteIdle /\ LLMIdle /\ PipeIdle /\ MCPIdle
ToolIdle == ReplyIdle /\ ParseIdle /\ RegistryInit
ExtIdle == DBIdle /\ ClientInit /\ SMTPIdle /\ ToolIdle

InitRoute == RouteInit /\ LLMIdle /\ PipeIdle /\ MCPIdle /\ ExtIdle

RouteNext == RouteCall

SpecRoute == InitRoute /\ [][RouteNext]_vars

InitLLM == LLMInit /\ RouteIdle /\ PipeIdle /\ MCPIdle /\ ExtIdle

LLMNext ==
    \/ LLMStart
    \/ ChatFails
    \/ ChatCompletes
    \/ ChatCallsTools
    \/ ExecuteToolCall
    \/ MaxIterationsReached

SpecLLM == InitLLM /\ [][LLMNext]_vars

Init == PipeInit /\ RouteCallIdle /\ LLMIdle /\ MCPIdle /\ ExtIdle

Next ==
    \/ \E t \in Threads : ProcessSave(t)
    \/ \E t \in Threads : ProcessRoute(t)
    \/ \E t \in Threads : ProcessMarkProcessing(t)
    \/ \E t \in Threads : DispatchLLM(t)
    \/ \E t \in Threads : ReplyAddress(t)
    \/ \E t \in Threads : ReplySend(t)
    \/ \E t \in Threads : LLMReturns(t)
    \/ \E t \in Threads : DispatchForward(t)
    \/ \E t \in Threads : ForwardExecute(t)
    \/ \E t \in Threads : DispatchWebhook(t)
    \/ \E t \in Threads : DispatchNoop(t)
    \/ \E t \in Threads : ProcessFinish(t)
    \/ \E t \in Threads : Deadline(t)
    \/ PendingFetch
    \/ PendingParseFails
    \/ PendingReenter
    \/ PendingDone

Spec == Init /\ [][Next]_vars

InitMCP == MCPInit /\ RouteIdle /\ LLMIdle /\ PipeIdle /\ ExtIdle

MCPNext ==
    \/ \E c \in Callers : RequestStart(c)
    \/ \E c \in Callers : RequestRegister(c)
    \/ \E c \in Callers : RequestSend(c)
    \/ \E c \in Callers : RequestReceive(c)
    \/ \E c \in Callers : RequestCancelled(c)
    \/ \E c \in Callers : RequestCleanup(c)
    \/ ServerWrites
    \/ ReaderScans
    \/ ReaderUnblocks

SpecMCP == InitMCP /\ [][MCPNext]_vars

\* The scheduling the liveness of request rests on: every goroutine that can
\* take its next step does so in the end (the callers and the reader run as
\* goroutines of their own), and the context of a waiting request is done in
\* the end, so that the select has a case to take.
MCPFairness ==
    /\ \A c \in Callers :
        /\ WF_vars(RequestRegister(c))
        /\ WF_vars(RequestSend(c))
        /\ WF_vars(RequestReceive(c) \/ RequestCancelled(c))
        /\ WF_vars(RequestCleanup(c))
    /\ WF_vars(ReaderScans)
    /\ WF_vars(ReaderUnblocks)

SpecMCPFair == InitMCP /\ [][MCPNext]_vars /\ MCPFairness

InitDB == DBInit /\ CoreIdle /\ ClientInit /\ SMTPIdle /\ ToolIdle

DBNext == DatabaseExecute

SpecDB == InitDB /\ [][DBNext]_vars

InitClient == ClientInit /\ CoreIdle /\ DBIdle /\ SMTPIdle /\ ToolIdle

ClientNext ==
    \/ Connect
    \/ ConnectReturns
    \/ ConnectServerLock
    \/ NewServerConnection
    \/ InitializeRequest
    \/ InitializeResponse
    \/ NotifyInitialized
    \/ ToolsListRequest
    \/ ToolsListResponse
    \/ RegisterTools
    \/ MCPToolExecute

SpecClient == InitClient /\ [][ClientNext]_vars

InitSMTP == SMTPInit /\ CoreIdle /\ DBIdle /\ ClientInit /\ ToolIdle

SMTPNext ==
    \/ Mail
    \/ Rcpt
    \/ Data
    \/ Reset
    \/ HandlerCalled
    \/ HandlerReturned

SpecSMTP == InitSMTP /\ [][SMTPNext]_vars

InitReply == ReplyInit /\ CoreIdle /\ DBIdle /\ ClientInit /\ SMTPIdle /\ ParseIdle /\ RegistryInit

ReplyNext == EmailToolExecuteReply

SpecReply == InitReply /\ [][ReplyNext]_vars

InitParse == ParseInit /\ CoreIdle /\ DBIdle /\ ClientInit /\ SMTPIdle /\ ReplyIdle /\ RegistryInit

ParseNext == ParserParse

SpecParse == InitParse /\ [][ParseNext]_vars

InitRegistry == RegistryInit /\ CoreIdle /\ DBIdle /\ ClientInit /\ SMTPIdle /\ ReplyIdle /\ ParseIdle

RegistryNext ==
    \/ RegistryRegister
    \/ RegistryExecuteCall

SpecRegistry == InitRegistry /\ [][RegistryNext]_vars

\* ------------------------------------------------------------------------
\* Properties
\* ------------------------------------------------------------------------

\* The status edges the contract allows.
StatusEdges ==
    {<<EmailStatusPending, EmailStatusProcessing>>,
     <<EmailStatusProcessing, EmailStatusCompleted>>,
     <<EmailStatusProcessing, EmailStatusFailed>>}

TerminalStatuses == {EmailStatusCompleted, EmailStatusFailed}

C2_PersistedEmailsEndTerminal ==
    (\A t \in Threads : pc[t] \in {"done", "idle"})
        => \A i \in 1..Len(emails) : emails[i].status \in TerminalStatuses

\* The steps of one Process call, in the contract's order.
ProcessSteps ==
    <<"store_pending", "route", "store_processing", "dispatch_start", "dispatch_end",
      "store_terminal">>

IsPrefix(s, full) == Len(s) <= Len(full) /\ s = SubSeq(full, 1, Len(s))

Dispatching(t) == pc[t] \in {"dispatch", "llm", "reply", "forward"}

\* C3: the steps a Process call has taken so far are always an initial part
\* of Store(pending), Route, Store(processing), Dispatch start, Dispatch
\* return, Store(terminal); while the dispatch is about to run or running the
\* call's row has been written processing (it is no longer pending), and the
\* call has written no terminal status.
C3_StepsInFixedOrder ==
    \A t \in Threads :
        /\ IsPrefix(trace[t], ProcessSteps)
        /\ Dispatching(t) =>
              /\ dbID[t] \in 1..Len(emails)
              /\ emails[dbID[t]].status # EmailStatusPending
              /\ Len(trace[t]) \in 3..4
        /\ Len(trace[t]) = 6 => ret[t] # NotReturned

\* C3 witness: a delivery ran all six steps, with a dispatch that took steps
\* of its own, and returned.
C3_Witness ==
    \E t \in Handlers :
        /\ trace[t] = ProcessSteps
        /\ pc[t] = "done"
        /\ \E o \in outbox : o.during = inbound[t]

\* A Process call of thread t went through its dispatch and returned.
DispatchedAndReturned(t) ==
    /\ ret[t] # NotReturned
    /\ Len(trace[t]) >= 5
    /\ trace[t][5] = "dispatch_end"

\* C4: a Process call that got through its dispatch chose failed as the
\* final status exactly when the dispatch returned an error, and completed
\* otherwise, and returned the dispatch's result, whether or not the final
\* status could be written; when it was written (and no ProcessPending runs
\* beside the deliveries) the row holds the chosen status, when it was not
\* the row is still processing.
C4_FinalStatusFollowsDispatchResult ==
    \A t \in Threads :
        DispatchedAndReturned(t) =>
            /\ (finalStatus[t] = EmailStatusFailed) <=> (processErr[t] # "")
            /\ (finalStatus[t] = EmailStatusCompleted) <=> (processErr[t] = "")
            /\ ret[t] = processErr[t]
            /\ pc[Replayer] = "idle" =>
                  emails[dbID[t]].status =
                      IF Len(trace[t]) = 6 THEN finalStatus[t] ELSE EmailStatusProcessing

\* C4 witness: one delivery's dispatch failed and its row was written
\* failed; the other's dispatch succeeded, its final status could not be
\* written, and it still returned nil.
C4_Witness ==
    /\ DispatchedAndReturned("h1")
    /\ ret["h1"] = ErrChat
    /\ emails[dbID["h1"]].status = EmailStatusFailed
    /\ DispatchedAndReturned("h2")
    /\ ret["h2"] = ""
    /\ finalStatus["h2"] = EmailStatusCompleted
    /\ Len(trace["h2"]) = 5
    /\ emails[dbID["h2"]].status = EmailStatusProcessing

\* A mailbox's declared predicates all hit the message: from on the sender's
\* bare address, to on some recipient, subject on the subject. A predicate
\* whose source is empty is not declared.
RuleHits(mb, e) ==
    /\ mb.match.from # "" => MatchString(mb.match.from, e.From.Address)
    /\ mb.match.to # "" => \E i \in 1..Len(e.To) : MatchString(mb.match.to, e.To[i])
    /\ mb.match.subject # "" => MatchString(mb.match.subject, e.Subject)

\* C5: Route returns the first rule in configuration order whose declared
\* predicates all match: the returned rule matches and no earlier rule does;
\* when no rule is returned (mailbox "unmatched"), no rule matches.
C5_RouteReturnsFirstMatch ==
    rPc = "done" =>
        IF matched # NoRule
        THEN /\ matched \in 1..Len(mailboxes)
             /\ RuleHits(mailboxes[matched], msg)
             /\ \A j \in 1..(matched - 1) : ~RuleHits(mailboxes[j], msg)
             /\ routeResult.MailboxName = mailboxes[matched].name
             /\ rules[matched].Priority = matched - 1
        ELSE /\ \A j \in 1..Len(mailboxes) : ~RuleHits(mailboxes[j], msg)
             /\ routeResult.MailboxName = "unmatched"

\* C5 witness: the routing-precedence scenario; a message to sales@x.com skips
\* "support" and lands in "all", although "all" would match any recipient.
C5_Witness ==
    /\ rPc = "done"
    /\ mailboxes = <<MailboxSupport, MailboxAll>>
    /\ msg.To = <<"sales@x.com">>
    /\ matched = 2
    /\ routeResult.MailboxName = "all"

\* C6: a rule matches a message iff every predicate it declares hits (from on
\* the bare address, to on at least one recipient, subject on the subject);
\* an omitted predicate never disqualifies, so a rule without predicates
\* matches every message, also one without recipients.
C6_MatchesIffDeclaredPredicatesHit ==
    rPc = "done" =>
        \A j \in 1..Len(rules) :
            /\ Matches(rules[j], msg) <=> RuleHits(mailboxes[j], msg)
            /\ mailboxes[j].match = [from |-> "", to |-> "", subject |-> ""]
                  => Matches(rules[j], msg)
            /\ (matched = j) => RuleHits(mailboxes[j], msg)
            /\ (matched = NoRule \/ matched > j) => ~RuleHits(mailboxes[j], msg)

\* C6 witness: a to-rule that only the second recipient satisfies is passed
\* over for a sender it does not declare, and the rule without predicates
\* takes a message that has no recipients at all.
C6_Witness ==
    /\ rPc = "done"
    /\ mailboxes = <<MailboxSupport, MailboxAny>>
    /\ msg.To = <<>>
    /\ matched = 2
    /\ routeResult.MailboxName = "any"

\* C6 second case: any-hit on the recipients, display name ignored.
C6_WitnessAnyRecipient ==
    /\ rPc = "done"
    /\ mailboxes = <<MailboxAlice, MailboxSupport>>
    /\ msg.From = [Name |-> "alice@a.org", Address |-> "bob@b.org"]
    /\ msg.To = <<"sales@x.com", "support@x.com">>
    /\ matched = 2

\* C7 (as stated): every reply handed to the sender during the dispatch of
\* email E goes to E's Reply-To, else E's From, with E's message id as
\* In-Reply-To, and every forward quotes E.
C7_SendsAreBuiltFromDispatchedEmail ==
    \A o \in outbox :
        /\ o.action = "reply" =>
              /\ o.To = (IF o.during.ReplyTo # "" THEN o.during.ReplyTo
                         ELSE o.during.From.Address)
              /\ o.InReplyTo = o.during.MessageID
        /\ o.action = "forward" => o.Quoted = o.during.MessageID

\* Number of tool-result messages in the conversation that carry call id `id`.
ToolResultCount(id) ==
    Cardinality({m \in 1..Len(messages) :
                    messages[m].Role = "tool" /\ messages[m].ToolCallID = id})

\* The k-th received response is the one at which the loop returned.
LoopReturnedAt(k) ==
    llmPc = "done" /\ llmResult.err = "" /\ k = Len(received)

\* C8: ProcessWithTools makes at most max_iterations model calls (10 when
\* max_iterations <= 0); when it ends without a response having ended the loop
\* and without a failed model call, it fails with "max iterations reached
\* without completion" after exactly max_iterations calls.
C8_AtMostMaxIterationsModelCalls ==
    LET limit == IF maxIterationsArg <= 0 THEN 10 ELSE maxIterationsArg IN
    /\ chatCalls <= limit
    /\ llmPc = "done" =>
          /\ llmResult.err \in {"", ErrChat, ErrMaxIterations}
          /\ llmResult.err = ErrMaxIterations <=>
                /\ chatCalls = limit
                /\ Len(received) = limit
                /\ ~LoopReturnedAt(limit)

\* C8 witness: the default limit is run to its end.
C8_Witness ==
    /\ llmPc = "done"
    /\ maxIterationsArg <= 0
    /\ chatCalls = 10
    /\ llmResult.err = ErrMaxIterations

\* C9 as claimed: every tool call of every received response has exactly one
\* tool-result message once the loop has returned, whatever the response's
\* finish reason or status.
C9_EveryEmittedCallAnswered ==
    llmPc = "done" =>
        \A k \in 1..Len(received) :
            \A j \in 1..Len(received[k].ToolCalls) :
                ToolResultCount(received[k].ToolCalls[j].ID) = 1

\* C9 amended: a tool call never has two tool-result messages; between
\* iterations and at the end, each tool call of a response that did not end
\* the loop has exactly one, carrying its id, and the tool calls of the
\* response at which the loop returned have none.
C9_ContinuedCallsAnsweredOnce ==
    \A k \in 1..Len(received) :
        \A j \in 1..Len(received[k].ToolCalls) :
            LET n == ToolResultCount(received[k].ToolCalls[j].ID) IN
            /\ n <= 1
            /\ llmPc \in {"loop", "done"} =>
                  n = IF LoopReturnedAt(k) THEN 0 ELSE 1
            /\ (llmPc = "tools" /\ k = Len(received)) =>
                  n = IF j < tcIdx THEN 1 ELSE 0

\* C9 witness: a run in which a response with two tool calls (the first one
\* failing) was answered call by call, and the loop then returned at a
\* response that still carried a tool call.
C9_Witness ==
    /\ llmPc = "done"
    /\ llmResult.err = ""
    /\ Len(received) = 2
    /\ Len(received[1].ToolCalls) = 2
    /\ ToolResultCount(<<1, 1>>) = 1
    /\ ToolResultCount(<<1, 2>>) = 1
    /\ Len(received[2].ToolCalls) = 1
    /\ ToolResultCount(<<2, 1>>) = 0

\* The claim's test for a response that ends the loop.
ClaimedFinal(r) ==
    r.FinishReason = "stop" \/ r.Status = "completed" \/ Len(r.ToolCalls) = 0

\* C10 as claimed: every received assistant message is appended to the
\* conversation; the loop returns successfully, with the response's text, at
\* the first response whose finish reason is stop or that has no tool calls;
\* after every other response the tool calls are executed and another model
\* call is made.
C10_AppendsReturnsOrCallsAgain ==
    /\ Cardinality({m \in 1..Len(messages) : messages[m].Role = "assistant"})
          = Len(received)
    /\ \A k \in 1..Len(received) :
          IF ClaimedFinal(received[k])
          THEN LoopReturnedAt(k) /\ llmResult.text = received[k].Text
          ELSE llmPc = "done" => chatCalls > k

\* The call at position j of the k-th response has been executed.
Executed(k, j) ==
    /\ ~LoopReturnedAt(k)
    /\ \/ k < Len(received)
       \/ llmPc \in {"loop", "done"}
       \/ llmPc = "tools" /\ j < tcIdx

\* The error a call's execution ends with ("" = none): the name is not in the
\* registry, or the tool's execute fails.
ExpectedToolError(name) ==
    CASE name = "nosuch"   -> "unknown tool: nosuch"
      [] name = "srv:echo" -> "tool error: boom"
      [] OTHER             -> ""

\* C11: a failing tool call (unknown tool, or execute returning an error)
\* never ends the loop: ProcessWithTools never returns a tool's error; the
\* failed call has the tool-result {success:false, error:<msg>} under its id;
\* once the response's calls are done the calls after it have their results
\* too; and a run that ended otherwise than on the iteration limit made a
\* further model call after that response.
C11_ToolFailureDoesNotAbort ==
    /\ llmPc = "done" => llmResult.err \in {"", ErrChat, ErrMaxIterations}
    /\ \A k \in 1..Len(received) :
          \A j \in 1..Len(received[k].ToolCalls) :
              LET call == received[k].ToolCalls[j]
                  msg0 == ExpectedToolError(call.Name) IN
              (msg0 # "" /\ Executed(k, j)) =>
                  /\ \E m \in 1..Len(messages) :
                        /\ messages[m].ToolCallID = call.ID
                        /\ messages[m].Content =
                              "{\"success\":false,\"error\":\"" \o msg0 \o "\"}"
                  /\ (k < Len(received) \/ llmPc \in {"loop", "done"}) =>
                        \A j2 \in (j + 1)..Len(received[k].ToolCalls) :
                            ToolResultCount(received[k].ToolCalls[j2].ID) = 1
                  /\ (llmPc = "tools" /\ k = Len(received)) =>
                        tcIdx <= Len(received[k].ToolCalls)
                  /\ (llmPc = "done" /\ llmResult.err # ErrMaxIterations) =>
                        chatCalls > k

\* C11 witness: the first response called an unknown tool and then
\* send_email; both were answered, the first with the error envelope, and a
\* second model call was made.
C11_Witness ==
    /\ Len(received) >= 1
    /\ Len(received[1].ToolCalls) = 2
    /\ received[1].ToolCalls[1].Name = "nosuch"
    /\ \E m \in 1..Len(messages) :
          /\ messages[m].ToolCallID = <<1, 1>>
          /\ messages[m].Content = "{\"success\":false,\"error\":\"unknown tool: nosuch\"}"
    /\ ToolResultCount(<<1, 2>>) = 1
    /\ chatCalls = 2

\* How many tool calls of the k-th response have been executed.
ExecutedCount(k) ==
    IF LoopReturnedAt(k) THEN 0
    ELSE IF k < Len(received) \/ llmPc \in {"loop", "done"}
    THEN Len(received[k].ToolCalls)
    ELSE tcIdx - 1

\* The conversation as a list of marks: the id of the call a tool-result
\* answers, <<0, 1>> for an assistant message, <<0, 0>> for the user message.
ConversationOrder ==
    [m \in 1..Len(messages) |->
        IF messages[m].Role = "tool" THEN messages[m].ToolCallID
        ELSE IF messages[m].Role = "assistant" THEN <<0, 1>>
        ELSE <<0, 0>>]

\* The order the contract asks for, from the k-th response on: the response
\* (where the client keeps it), then the results of its executed calls in
\* the order the model listed them, then the next response.
RECURSIVE OrderFrom(_)
OrderFrom(k) ==
    IF k > Len(received) THEN <<>>
    ELSE (IF llmClient = "chat" THEN <<(<<0, 1>>)>> ELSE <<>>)
         \o [j \in 1..ExecutedCount(k) |-> received[k].ToolCalls[j].ID]
         \o OrderFrom(k + 1)

\* C12: the conversation holds, after the user message, response 1 (where
\* kept), the tool-results of response 1 in the order the model returned the
\* calls, response 2, its tool-results in order, and so on; and whenever a
\* model call is made, every tool call of the previous response has already
\* been executed and its result appended.
C12_ToolCallsInOrderBeforeNextModelCall ==
    /\ llmPc # "idle" /\ messages # <<>> => ConversationOrder = <<(<<0, 0>>)>> \o OrderFrom(1)
    /\ \A k \in 1..(Len(received) - 1) :
          \A j \in 1..Len(received[k].ToolCalls) :
              ToolResultCount(received[k].ToolCalls[j].ID) = 1
    /\ llmPc = "tools" => chatCalls = Len(received) /\ tcIdx \in 1..Len(resp.ToolCalls)

\* C12 witness: a response with two tool calls got its two results in the
\* model's order and a second model call followed, answered with one more
\* tool call that has been executed.
C12_Witness ==
    /\ Len(received) = 2
    /\ Len(received[1].ToolCalls) = 2
    /\ Len(received[2].ToolCalls) = 1
    /\ llmPc = "loop"
    /\ SelectSeq(ConversationOrder, LAMBDA x : x[1] # 0) = <<(<<1, 1>>), <<1, 2>>, <<2, 1>>>>

\* ------------------------------------------------------------------------
\* MCP connection
\* ------------------------------------------------------------------------

\* The requests in flight: registered in c.pending and not yet returned
\* (request returns when its deferred delete has run).
InFlight == {callID[c] : c \in {d \in Callers : callPc[d] \in {"send", "wait", "cleanup"}}}

\* The requests that have returned, each with the way it returned.
Returned(kind) ==
    {id \in DOMAIN returned : returned[id].kind = kind /\ id \notin InFlight}

Undelivered(line) ==
    /\ \A i \in DOMAIN mcpPending : \A k \in 1..Len(mcpPending[i]) : mcpPending[i][k] # line
    /\ readerLine # line
    /\ \A id \in DOMAIN returned : returned[id].resp # line

C14_State ==
    \* a request is handed only a response that carries its own id
    /\ \A id \in DOMAIN returned :
           returned[id].kind \in {"response", "MCP error"} => returned[id].resp.id = id
    /\ \A i \in DOMAIN mcpPending :
           \A k \in 1..Len(mcpPending[i]) : mcpPending[i][k].id = i
    \* no two requests under way share an id, and no id is ahead of the counter
    /\ \A c, d \in Callers :
           (c # d /\ callPc[c] \notin {"idle", "off"} /\ callPc[d] \notin {"idle", "off"})
               => callID[c] # callID[d]
    /\ \A c \in Callers : callID[c] <= reqID
    \* a discarded response reaches no request
    /\ \A line \in discarded : Undelivered(line)

C14_Step ==
    \* ids are strictly increasing: a new request takes an id above every id used
    /\ reqID' >= reqID
    /\ \A c \in Callers :
           callID'[c] # callID[c] =>
               /\ callID'[c] > reqID
               /\ \A d \in Callers : callID'[c] > callID[d]
               /\ \A id \in DOMAIN returned : callID'[c] > id
    \* a scanned response without pending entry is discarded, and only such a one
    /\ (readerPc = "scan" /\ stdout' # stdout /\ stdout # <<>> /\ Len(stdout') < Len(stdout)) =>
           IF Head(stdout).id \in DOMAIN mcpPending
           THEN discarded' = discarded
           ELSE discarded' = discarded \cup {Head(stdout)} /\ mcpPending' = mcpPending

\* C14: with several requests in flight on one connection, a request is
\* handed only the response that carries its own id; ids strictly increase
\* and are never reused; a response whose id has no pending entry (late
\* after a cancellation, unknown, or already answered) is discarded and
\* reaches no request.
C14_OwnResponseOnly == []C14_State /\ [][C14_Step]_vars

\* Two requests are in flight; one has been handed its own response, and a
\* response without pending entry has been discarded.
C14_Witness ==
    /\ \E c, d \in Callers :
           /\ callPc[c] = "cleanup"
           /\ callID[c] \in DOMAIN returned
           /\ returned[callID[c]].kind = "response"
           /\ returned[callID[c]].resp.id = callID[c]
           /\ callPc[d] = "wait"
    /\ discarded # {}

\* ------------------------------------------------------------------------
\* Replay and the emails table
\* ------------------------------------------------------------------------

\* The rows whose delivery is still running (a handler may yet write them).
InHandlerHands == {dbID[t] : t \in {h \in Handlers : pc[h] # "done"}}

\* C15 (as stated): when ProcessPending has returned, every row it fetched
\* as pending has left pending and is completed or failed.  Rows that a
\* delivery still running holds are set aside: the claim is about stranded
\* rows.
C15_FetchedRowsEndTerminal ==
    (pc[Replayer] = "done" /\ ppRet = "") =>
        \A id \in fetched \ InHandlerHands : emails[id].status \in TerminalStatuses

\* No two rows of the emails table share a message_id.
MessageIDsUnique ==
    \A i, j \in DOMAIN emails : emails[i].message_id = emails[j].message_id => i = j

\* A Process call whose message_id is already stored leaves SaveEmail with
\* an error: no row is inserted, no row is changed, and the call returns.
DuplicateIsRejected ==
    \A t \in Threads :
        (pc[t] = "save" /\ pc'[t] # "save" /\ HasMessageID(emails, inbound[t].MessageID)) =>
            /\ emails' = emails
            /\ ret'[t] = ErrSaveEmail
            /\ dbID'[t] = 0
            /\ pc'[t] \in {"done", "pp_loop"}

\* C16: after any sequence of Process calls, concurrent ones and replays
\* included, no two email rows share a message_id; a Process call whose
\* inbound message_id is already stored returns an error, inserts no row and
\* changes no existing row's status.
C16_MessageIDUnique == []MessageIDsUnique /\ [][DuplicateIsRejected]_vars

\* The same message was delivered twice at the same time: one delivery
\* stored and completed it, the other was turned away at SaveEmail.
C16_Witness ==
    /\ inbound["h1"].MessageID = inbound["h2"].MessageID
    /\ Len(emails) = 1
    /\ emails[1].status = EmailStatusCompleted
    /\ \E t \in Handlers : ret[t] = ErrSaveEmail /\ dbID[t] = 0 /\ ~expired[t]

\* C17: in every reachable store state a row's processed_at is non-null
\* if and only if its status is completed or failed (rows are inserted
\* pending with a null processed_at, and every status update sets or
\* clears processed_at along with the status).
C17_ProcessedAtIffTerminal ==
    \A i \in DOMAIN emails :
        emails[i].processed_at <=> emails[i].status \in TerminalStatuses

\* The table holds a stamped terminal row next to an unstamped row that a
\* status update has already written.
C17_Witness ==
    \E i, j \in DOMAIN emails :
        /\ emails[i].status = EmailStatusFailed /\ emails[i].processed_at
        /\ emails[j].status = EmailStatusProcessing /\ ~emails[j].processed_at

\* C18 (as stated): once Process has routed an email, the stored row of
\* that email carries the mailbox_name of the RouteResult, and still does
\* when the row is completed or failed.
C18_RowCarriesRoutedMailbox ==
    \A t \in Threads :
        (dbID[t] # 0 /\ route[t] # NoResult) =>
            emails[dbID[t]].mailbox_name = route[t].MailboxName

\* The ToolCallRecord rows the store holds for an email row.
ToolCallRecords(id) == {k \in DOMAIN toolCalls : toolCalls[k].email_id = id}

\* C19 (as stated): by the time the terminal status of an email processed by
\* the llm processor is written, the store holds one ToolCallRecord for that
\* email per tool call executed during its processing.
C19_ExecutedToolCallsAreLogged ==
    \A t \in Handlers :
        (route[t].ProcessorType = ProcessorTypeLLM /\ dbID[t] # 0
            /\ emails[dbID[t]].status \in TerminalStatuses) =>
                Cardinality(ToolCallRecords(dbID[t])) = sends[t]

\* ------------------------------------------------------------------------
\* Tool-result envelope
\* ------------------------------------------------------------------------

\* What a JSON decoder makes of the texts the tools produce: the kind of the
\* top-level value and, for an object, the type of each member.
ParseJSON(text) ==
    CASE text = "{\"success\":true,\"data\":{\"sent\":true}}" ->
            [kind |-> "object", members |-> [success |-> "bool", data |-> "object"]]
      [] text = "{\"data\":\"hi\",\"success\":true}" ->
            [kind |-> "object", members |-> [success |-> "bool", data |-> "string"]]
      [] text = "{\"success\":false,\"error\":\"unknown tool: nosuch\"}" ->
            [kind |-> "object", members |-> [success |-> "bool", error |-> "string"]]
      [] text = "{\"success\":false,\"error\":\"tool error: boom\"}" ->
            [kind |-> "object", members |-> [success |-> "bool", error |-> "string"]]
      [] text = "{\"success\":false}" ->
            [kind |-> "object", members |-> [success |-> "bool"]]
      [] text = "{\"content\":[{\"type\":\"image\",\"data\":\"aGk=\"}]}" ->
            [kind |-> "object", members |-> [content |-> "array"]]
      [] text = "{\"content\":[{\"type\":\"text\",\"text\":\"hi\"}]}" ->
            [kind |-> "object", members |-> [content |-> "array"]]
      [] text = "[\"hi\"]" ->
            [kind |-> "array", members |-> <<>>]
      [] OTHER ->
            [kind |-> "invalid", members |-> <<>>]

\* {success: bool, data?: any, error?: string}
IsEnvelope(text) ==
    LET v == ParseJSON(text) IN
    /\ v.kind = "object"
    /\ DOMAIN v.members \subseteq {"success", "data", "error"}
    /\ "success" \in DOMAIN v.members
    /\ v.members["success"] = "bool"
    /\ "error" \in DOMAIN v.members => v.members["error"] = "string"

\* C20 (as stated): every tool-result message the loop appends to the
\* conversation, for built-in tools, MCP tools, unknown names and failing
\* tools alike, is a JSON object of the envelope shape
\* {success: bool, data?: any, error?: string}.
C20_ToolResultsAreEnvelopes ==
    \A m \in 1..Len(messages) :
        messages[m].Role = "tool" => IsEnvelope(messages[m].Content)

\* ------------------------------------------------------------------------
\* Misconfigured processors
\* ------------------------------------------------------------------------

\* The processor of a matched rule is misconfigured: forward without
\* forward_to, webhook without webhook_url, or a type that is none of llm,
\* forward, webhook, noop.
Misconfigured(r) ==
    /\ r.MailboxName # "unmatched"
    /\ \/ r.ProcessorType = ProcessorTypeForward /\ r.Config.forward_to = ""
       \/ r.ProcessorType = ProcessorTypeWebhook /\ r.Config.webhook_url = ""
       \/ r.ProcessorType \notin {ProcessorTypeLLM, ProcessorTypeForward,
                                  ProcessorTypeWebhook, ProcessorTypeNoop}

\* C28 (as stated): an email whose matched rule has a misconfigured
\* processor ends in status failed (here: whenever Process has written its
\* final status), and no outbound email or HTTP request is made for it.
C28_MisconfiguredEndsFailed ==
    \A t \in Handlers :
        (route[t] # NoResult /\ Misconfigured(route[t])) =>
            /\ (pc[t] = "done" /\ Len(trace[t]) = Len(ProcessSteps)) =>
                   emails[dbID[t]].status = EmailStatusFailed
            /\ dbID[t] \notin posts
            /\ \A o \in outbox : o.during # inbound[t]

\* ------------------------------------------------------------------------
\* database_query
\* ------------------------------------------------------------------------

\* The query as the checks see it: trimmed and uppercased.
QueryUpper == ToUpper(TrimSpace(dbQuery))

\* The result is an envelope {"success":false,"error":...}.
IsErrorEnvelope(text) == HasPrefix(text, "{\"success\":false,\"error\":\"")

\* C29 (as stated): in read-only mode every query whose trimmed, uppercased
\* text does not begin with "SELECT " (SELECT and a space) is rejected with
\* a success:false envelope and without touching the database.
C29_ReadOnlyRejectsAllButSelectSpace ==
    (dbPc = "done" /\ dbReadOnly /\ ~HasPrefix(QueryUpper, "SELECT ")) =>
        IsErrorEnvelope(dbResult) /\ dbRan = ""

\* C29 (amended): in read-only mode every query whose trimmed, uppercased
\* text does not begin with "SELECT" is rejected with a success:false
\* envelope and without touching the database.
C29_ReadOnlyRejectsAllButSelect ==
    (dbPc = "done" /\ dbReadOnly /\ ~HasPrefix(QueryUpper, "SELECT")) =>
        IsErrorEnvelope(dbResult) /\ dbRan = ""

\* A delete, blanks before it, was refused in read-only mode.
C29_Witness ==
    /\ dbPc = "done"
    /\ dbReadOnly
    /\ dbQuery = "\n delete x from t"
    /\ dbResult = ErrReadOnly
    /\ dbRan = ""

\* The query begins with one of the DDL keywords, as a word.
BeginsWithDDL ==
    \E kw \in {"DROP", "TRUNCATE", "ALTER", "CREATE"}, sp \in {" ", "\t", "\n"} :
        HasPrefix(QueryUpper, kw \o sp)

\* C30 (as stated): whatever the read_only setting, a query that begins
\* with DROP, TRUNCATE, ALTER or CREATE is refused with the envelope
\* "DDL operations are not allowed" and nothing runs on the database; and
\* no query is refused so for a keyword elsewhere than at its start.
C30_DDLRefusedByPrefixOnly ==
    dbPc = "done" =>
        /\ BeginsWithDDL => dbResult = ErrDDL /\ dbRan = ""
        /\ dbResult = ErrDDL => BeginsWithDDL

\* ------------------------------------------------------------------------
\* MCP client: handshake, tool calls, reconnection
\* ------------------------------------------------------------------------

\* The connection ConnectServer is setting up, 0 if none.
InHandshake ==
    IF connectPc \in {"spawned", "initSent", "initOk", "notified", "listSent"}
    THEN Len(conns) ELSE 0

\* A tool of connection c is exposed: by GetTools, or by the registry.
Exposed(c) ==
    \/ ConnTools(c) # {}
    \/ \E n \in ServerNames : servers[n] = c
    \/ \E e \in registry : e.conn = c

\* C21: on every connection the messages are written in the order
\* initialize, notifications/initialized, tools/list, and only tools/call after
\* them; the notification alone carries no id; nothing follows initialize
\* until its response has come back without error; a connection whose
\* handshake has not completed, or has failed, exposes no tool and carries no
\* tools/call.
C21_HandshakeOrdered ==
    \A c \in 1..Len(conns) :
        LET wire == conns[c].wire IN
        /\ \A k \in 1..Len(wire) :
              /\ k = 1 => wire[k].method = "initialize"
              /\ k = 2 => wire[k].method = "notifications/initialized"
              /\ k = 3 => wire[k].method = "tools/list"
              /\ k > 3 => wire[k].method = "tools/call"
              /\ (wire[k].id = 0) <=> (k = 2)
        /\ c = InHandshake =>
              Len(wire) = (CASE connectPc = "spawned" -> 0
                             [] connectPc \in {"initSent", "initOk"} -> 1
                             [] connectPc = "notified" -> 2
                             [] OTHER -> 3)
        /\ conns[c].initialized => Len(wire) >= 3
        /\ ~conns[c].initialized => ~Exposed(c) /\ Len(wire) <= 3

\* One connection failed after initialize was written and exposes nothing;
\* another completed its handshake and then carried a tools/call.
C21_Witness ==
    \E c, d \in 1..Len(conns) :
        /\ ~conns[c].initialized /\ ~conns[c].running /\ Len(conns[c].wire) >= 1
        /\ conns[d].initialized
        /\ Len(conns[d].wire) = 4
        /\ conns[d].wire[4].method = "tools/call"

C22_WitnessWrapped ==
    /\ lastCall.answered
    /\ lastCall.reply.Content = <<[Type |-> "text", Text |-> "hi"]>>
    /\ lastCall.out.result = "{\"data\":\"hi\",\"success\":true}"

\* C23 (as stated): Connect returns no error; whenever the client is not
\* inside ConnectServer, a server whose last ConnectServer succeeded is
\* connected and running whatever became of the others, and GetTools returns
\* no tool of a server whose last ConnectServer failed.
C23_ConnectSkipsFailures ==
    /\ connectRet \in {"none", "running", "nil"}
    /\ connectPc = "idle" =>
          \A n \in ServerNames :
              /\ lastConnect[n] = "ok" =>
                    /\ servers[n] # 0
                    /\ conns[servers[n]].initialized
                    /\ conns[servers[n]].running
              /\ lastConnect[n] = "failed" =>
                    \A t \in GetTools : conns[t.conn].name # n

\* A connection has something open: a pipe, or the child.
Live(c) ==
    conns[c].running \/ conns[c].stdin = "open" \/ conns[c].stdout = "open"

\* C24: no two connections of one server name are live at once: when
\* ConnectServer starts the new child, the connection the name had has its
\* stdin closed, its stdout closed and its child killed.
C24_OneLiveConnectionPerName ==
    \A c, d \in 1..Len(conns) :
        (c < d /\ conns[c].name = conns[d].name) => ~Live(c)

\* A server was reconnected: its first connection is torn down, its second
\* runs.
C24_Witness ==
    /\ Len(conns) = 2
    /\ conns[1].name = conns[2].name
    /\ conns[1].initialized
    /\ conns[1].stdin = "closed" /\ conns[1].stdout = "closed" /\ ~conns[1].running
    /\ conns[2].running
    /\ servers[conns[2].name] = 2

\* C25 (as stated): once RegisterTools has run after a server's successful
\* (re)connection, every registry entry of that server is bound to the
\* server's current connection.
C25_ReconnectReplacesEntries ==
    registered =>
        \A e \in registry :
            LET n == conns[e.conn].name IN
            lastConnect[n] = "ok" => e.conn = servers[n]

\* ------------------------------------------------------------------------
\* SMTP session: the domain allow-list and the hand-off of DATA
\* ------------------------------------------------------------------------

\* The positions of "@" in an address.
AtSigns(addr) == {k \in 1..Len(addr) : SubSeq(addr, k, k) = "@"}

\* The address has one "@" and what follows it is, ignoring case, a domain
\* of the allow-list.
DomainListed(addr) ==
    /\ Cardinality(AtSigns(addr)) = 1
    /\ LET at == CHOOSE k \in AtSigns(addr) : TRUE
           domain == SubSeq(addr, at + 1, Len(addr))
       IN \E k \in 1..Len(allowedDomains) :
              ToLower(allowedDomains[k]) = ToLower(domain)

\* C26: with an empty allow-list every RCPT TO is accepted; with a non-empty
\* one RCPT TO is accepted iff the part of the address after the @ is a
\* listed domain, ignoring case; an accepted address is appended to the
\* session's recipients, a refused one gets 550 5.7.1 "Domain not allowed"
\* and is not among the recipients.
C26_AllowListDecidesRcpt ==
    /\ smtpReply.command = "RCPT" =>
          LET to == smtpReply.argument
              accepted == smtpReply.reply.code = 250
          IN
          /\ Len(allowedDomains) = 0 => accepted
          /\ Len(allowedDomains) > 0 => (accepted <=> DomainListed(to))
          /\ accepted => Len(sessTo) > 0 /\ sessTo[Len(sessTo)] = to
          /\ ~accepted =>
                /\ smtpReply.reply = ReplyDomainNotAllowed
                /\ \A k \in 1..Len(sessTo) : sessTo[k] # to
    /\ Len(allowedDomains) > 0 =>
          \A k \in 1..Len(sessTo) : DomainListed(sessTo[k])

\* A recipient whose domain differs from the listed one in case only was
\* accepted.
C26_Witness ==
    /\ allowedDomains = <<"Other.ORG", "Example.Com">>
    /\ smtpReply = [command |-> "RCPT", argument |-> "a@EXAMPLE.com", reply |-> ReplyOK]
    /\ sessTo = <<"a@EXAMPLE.com">>

\* A recipient of a subdomain of the listed domain was refused.
C26_WitnessRefused ==
    /\ allowedDomains = <<"example.com">>
    /\ smtpReply = [command |-> "RCPT", argument |-> "a@mail.example.com",
                    reply |-> ReplyDomainNotAllowed]
    /\ sessTo = <<>>

\* The tasks started for the k-th DATA command.
TasksOf(k) == {j \in 1..Len(handlerTasks) : handlerTasks[j].data = k}

\* Per DATA command: a message that parses was answered with success and
\* has one task, which has called the handler at most once, with the parsed
\* email; one that does not parse was answered 554 5.6.0 and has no task.
C27_State ==
    \A k \in 1..Len(dataLog) :
        LET d == dataLog[k] IN
        /\ (d.message.read /\ d.message.parses) =>
              /\ d.reply.code = 250
              /\ Cardinality(TasksOf(k)) = 1
              /\ \A j \in TasksOf(k) :
                    /\ handlerTasks[j].calls = (IF handlerTasks[j].state = "started" THEN 0 ELSE 1)
                    /\ handlerTasks[j].email.message = d.message
        /\ (d.message.read /\ ~d.message.parses) =>
              /\ d.reply = ReplyParseFailed
              /\ TasksOf(k) = {}
        /\ ~d.message.read => TasksOf(k) = {}

\* When a DATA command returns, the handler has been called for none of the
\* tasks it started, and the tasks of earlier commands are where they were.
C27_Step ==
    Len(dataLog') > Len(dataLog) =>
        /\ \A j \in 1..Len(handlerTasks') :
              j > Len(handlerTasks) =>
                  handlerTasks'[j].state = "started" /\ handlerTasks'[j].calls = 0
        /\ \A j \in 1..Len(handlerTasks) : handlerTasks'[j] = handlerTasks[j]

\* C27: a DATA whose message parses returns success without waiting for the
\* handler and hands the parsed email to the handler exactly once, in a task
\* of its own; a DATA whose message does not parse returns 554 5.6.0 and the
\* handler is never called for it.
C27_DataHandsOffOnce == []C27_State /\ [][C27_Step]_vars

\* DATA has returned success and the handler has not been called yet.
C27_Witness ==
    /\ smtpReply = [command |-> "DATA", argument |-> "", reply |-> ReplyOK]
    /\ Len(handlerTasks) = 1
    /\ handlerTasks[1].state = "started"
    /\ handlerTasks[1].calls = 0

\* DATA was answered 554 5.6.0 and no task exists.
C27_WitnessParseFailure ==
    /\ smtpReply = [command |-> "DATA", argument |-> "", reply |-> ReplyParseFailed]
    /\ handlerTasks = <<>>

\* ------------------------------------------------------------------------
\* C31..C40
\* ------------------------------------------------------------------------

\* The call of Process running on t has routed its message.
Routed(t) == route[t] # NoResult /\ "route" \in {trace[t][i] : i \in 1..Len(trace[t])}

\* C33: when no rule matches the message, Route gives mailbox "unmatched"
\* with processor noop, the dispatch sends no email and makes no HTTP
\* request, Process has no error and the status it computes and writes is
\* completed; when the matched rule's processor type is the empty string,
\* Route gives type llm.
C33_UnmatchedIsNoopEmptyIsLLM ==
    \A t \in Threads :
        Routed(t) =>
            LET rule == FindMatch(rules, inbound[t]) IN
            /\ rule = NoRule =>
                   /\ route[t].MailboxName = "unmatched"
                   /\ route[t].ProcessorType = ProcessorTypeNoop
                   /\ processErr[t] = ""
                   /\ finalStatus[t] \in {"", EmailStatusCompleted}
                   /\ dbID[t] \notin posts
                   /\ \A o \in outbox : o.during # inbound[t]
                   /\ (pc[t] = "done" /\ Len(trace[t]) = Len(ProcessSteps)) =>
                          emails[dbID[t]].status = EmailStatusCompleted
            /\ (rule # NoRule /\ rules[rule].Processor.type = "") =>
                   route[t].ProcessorType = ProcessorTypeLLM

C33_Witness ==
    \E t \in Handlers :
        /\ pc[t] = "done"
        /\ route[t].MailboxName = "unmatched"
        /\ Len(trace[t]) = Len(ProcessSteps)
        /\ emails[dbID[t]].status = EmailStatusCompleted

C33_WitnessEmptyType ==
    \E t \in Handlers :
        /\ Routed(t)
        /\ FindMatch(rules, inbound[t]) # NoRule
        /\ rules[FindMatch(rules, inbound[t])].Processor.type = ""
        /\ route[t].ProcessorType = ProcessorTypeLLM

\* C40 (as stated): ProcessPending creates no email row; a step of the
\* Process call it makes leaves the number of stored rows as it was and
\* changes at most the status of rows that exist.
C40_ReplayCreatesNoRow ==
    [][(pc[Replayer] = "save" /\ pc'[Replayer] # "save") =>
           Len(emails') = Len(emails)]_vars

\* The step is processForward's emailTool.Execute on t, and sender.Send
\* failed in it: nothing was sent for t's message before, and nothing is
\* after.
ForwardSendFails(t) ==
    /\ pc[t] = "forward" /\ pc'[t] # "forward"
    /\ \A o \in outbox' : o.during # inbound[t]

\* The step is processWebhook on t with a URL configured, and the HTTP
\* request failed in it.
WebhookRequestFails(t) ==
    /\ pc[t] = "dispatch" /\ pc'[t] # "dispatch"
    /\ route[t].ProcessorType = ProcessorTypeWebhook
    /\ route[t].Config.webhook_url # ""
    /\ dbID[t] \notin posts'

\* C37 (as stated): when the Send of a forward or the HTTP request of a
\* webhook fails, the dispatch returns an error (so that Process returns it
\* and writes status failed).
C37_FailedDispatchWorkIsAnError ==
    [][\A t \in Threads :
           (ForwardSendFails(t) \/ WebhookRequestFails(t)) => processErr'[t] # ""]_vars

\* The rows of processing_logs for email id with the given step.
LogsOf(id, step) == {i \in 1..Len(logs) : logs[i].email_id = id /\ logs[i].step = step}

\* C38 (as stated): an llm dispatch that has started has left exactly one
\* llm_start log, holding the rendered user message; one that has ended has
\* also left exactly one llm_complete log, holding the loop's error, written
\* after the llm_start log.
C38_OneStartOneCompleteLog ==
    \A t \in Threads :
        (route[t].ProcessorType = ProcessorTypeLLM /\ dbID[t] # 0) =>
            /\ "dispatch_start" \in {trace[t][i] : i \in 1..Len(trace[t])} =>
                   /\ Cardinality(LogsOf(dbID[t], "llm_start")) = 1
                   /\ \A i \in LogsOf(dbID[t], "llm_start") :
                          logs[i].input = RenderUserMessage(inbound[t])
            /\ "dispatch_end" \in {trace[t][i] : i \in 1..Len(trace[t])} =>
                   /\ Cardinality(LogsOf(dbID[t], "llm_complete")) = 1
                   /\ \A i \in LogsOf(dbID[t], "llm_complete") :
                          /\ logs[i].error = processErr[t]
                          /\ \A j \in LogsOf(dbID[t], "llm_start") : j < i

\* readResponses is inside its send ch <- &resp: the channel's buffer is
\* full and the reader waits for a receiver.
ReaderBlockedInSend == readerPc = "blocked"

\* C35 (as stated): c.mu is never held across a blocking operation; the
\* reader is never blocked in the send of a response while it holds the
\* mutex.
C35_MutexNotHeldAcrossSend == ~(ReaderBlockedInSend /\ mu = "reader")

\* The deadlock the held mutex leads to: the reader waits, with the mutex,
\* for room in the channel of a request whose caller has left its select on
\* ctx.Done and now waits for the mutex in its deferred delete.
CallerAndReaderDeadlocked ==
    /\ ReaderBlockedInSend /\ mu = "reader"
    /\ \E c \in Callers : callPc[c] = "cleanup" /\ callID[c] = readerLine.id
    /\ ~ENABLED ReaderUnblocks

\* C39 (as stated): under fair scheduling and a context that is done in the
\* end, every request that has been written returns: its caller is released
\* and its pending entry removed.
C39_EveryRequestReturns ==
    \A c \in Callers, i \in 1..MaxRequests :
        (callPc[c] = "wait" /\ callID[c] = i)
            ~> (callPc[c] = "idle" /\ i \in DOMAIN returned /\ i \notin DOMAIN mcpPending)

\* The names the registry has an entry for.
RegistryNames(reg) == {e.name : e \in reg}

\* C34: the registry holds at most one tool per name; after Register(t),
\* Get under t's name gives t, whatever was registered under the name before,
\* and Get under every other name gives what it gave before; Execute runs the
\* tool Get gives for its name.
C34_State ==
    /\ \A e1, e2 \in regTools : e1.name = e2.name => e1 = e2
    /\ regLast # NoTool => RegistryGet(regTools, regLast.name) = regLast

C34_Step ==
    /\ regTools' # regTools =>
           /\ RegistryGet(regTools', regLast'.name) = regLast'
           /\ \A n \in NamesDrawn \ {regLast'.name} :
                  RegistryGet(regTools', n) = RegistryGet(regTools, n)
           /\ RegistryNames(regTools') = RegistryNames(regTools) \cup {regLast'.name}
    /\ regExec' # regExec =>
           regExec'.ran = RegistryGet(regTools, regExec'.name)

C34_LatestRegistrationWins == []C34_State /\ [][C34_Step]_vars

\* A tool ran under its name, another tool was then registered under that
\* name, and the name resolves to the second while a third name keeps its
\* entry.
C34_Witness ==
    /\ regExec.ran = [name |-> "srv:echo", mcpName |-> "echo", conn |-> 1]
    /\ regLast = [name |-> "srv:echo", mcpName |-> "echo", conn |-> 2]
    /\ RegistryGet(regTools, "srv:echo") = regLast
    /\ RegistryGet(regTools, "aux:echo").conn = 3

\* The tool names the mailbox permits: every registered tool when the list
\* is empty, else the registered tools the list names.
Permitted == convertTools(RegisteredTools, toolNames)

\* The tool messages that answer tool call id.
ToolAnswers(id) ==
    {k \in 1..Len(messages) : messages[k].Role = "tool" /\ messages[k].ToolCallID = id}

\* C36 (as stated): the loop declares the permitted tools and no other, and
\* the answer to a tool call that names a tool outside the permitted ones is
\* an error result (the tool was not executed).
C36_OnlyPermittedToolsRun ==
    /\ llmPc \notin {"start", "idle"} => apiTools = Permitted
    /\ \A r \in 1..Len(received) : \A j \in 1..Len(received[r].ToolCalls) :
           LET call == received[r].ToolCalls[j] IN
           call.Name \notin Permitted =>
               \A k \in ToolAnswers(call.ID) :
                   HasPrefix(messages[k].Content, "{\"success\":false")

\* The strings.HasPrefix(strings.ToLower(subject), "re:") of a subject.
HasReplyPrefix(sj) == Len(sj) >= 3 /\ ToLower(SubSeq(sj, 1, 3)) = "re:"

\* C32: a reply to a current email is handed to sender.Send exactly once;
\* it goes to the email's Reply-To when there is one and else to its From;
\* its subject is the one given, else the original subject, prefixed with
\* "Re: " unless it has that prefix already; In-Reply-To is the email's
\* message id; the original is quoted after the body when include_original
\* is true and the body is sent as given otherwise.
C32_ReplyBuiltFromCurrentEmail ==
    (replyPc = "done" /\ replyEmail # NoCurrentEmail) =>
        /\ Len(replySends) = 1
        /\ LET out == replySends[1] IN
           /\ out.To = <<IF replyEmail.ReplyTo # NilAddress
                         THEN replyEmail.ReplyTo ELSE replyEmail.From>>
           /\ emailArgs.Subject # "" => out.Subject = emailArgs.Subject
           /\ (emailArgs.Subject = "" /\ HasReplyPrefix(replyEmail.Subject)) =>
                  out.Subject = replyEmail.Subject
           /\ (emailArgs.Subject = "" /\ ~HasReplyPrefix(replyEmail.Subject)) =>
                  out.Subject = "Re: " \o replyEmail.Subject
           /\ out.InReplyTo = replyEmail.MessageID
           /\ HasPrefix(out.TextBody, emailArgs.Body)
           /\ emailArgs.IncludeOriginal = "true" <=>
                  Contains(out.TextBody, "Original Message")
           /\ emailArgs.IncludeOriginal # "true" => out.TextBody = emailArgs.Body

\* A reply to an email with Reply-To and a subject that has the prefix, no
\* subject given, the original quoted.
C32_Witness ==
    /\ replyPc = "done"
    /\ replyEmail.ReplyTo = "carol@c.org"
    /\ replyEmail.Subject = "RE: hello"
    /\ emailArgs = [Subject |-> "", Body |-> "OK", IncludeOriginal |-> "true"]
    /\ Len(replySends) = 1
    /\ replySends[1].To = <<"carol@c.org">>
    /\ replySends[1].Subject = "RE: hello"

\* The leaves of an entity in document order.
RECURSIVE Leaves(_)
RECURSIVE LeavesOf(_, _)
LeavesOf(parts, k) ==
    IF k > Len(parts) THEN <<>> ELSE Leaves(parts[k]) \o LeavesOf(parts, k + 1)

Leaves(e) ==
    IF HasPrefix(e.mediaType, "multipart/") THEN LeavesOf(e.parts, 1) ELSE <<e>>

IsPlainBody(e) == ~IsAttachment(e) /\ HasPrefix(e.mediaType, "text/plain")
IsHTMLBody(e) == ~IsAttachment(e) /\ HasPrefix(e.mediaType, "text/html")

\* The body of the first part of the list, "" for an empty list.
FirstBody(parts) == IF parts = <<>> THEN "" ELSE parts[1].body

\* C31 (as stated): after Parse, text_body is the content of the first
\* text/plain body part in document order and html_body that of the first
\* text/html body part.
C31_FirstBodyPartWins ==
    parsePc = "done" =>
        /\ parsedEmail.TextBody = FirstBody(SelectSeq(Leaves(entity), IsPlainBody))
        /\ parsedEmail.HTMLBody = FirstBody(SelectSeq(Leaves(entity), IsHTMLBody))

====
